---- MODULE Spec2Model ----
\* Verification model of godot-sidekick-lsp: the source store (filedb.rs),
\* its readers (inlay_hints.rs), the notification handlers (main.rs) and the
\* scope/type resolver (symbol_table.rs, typedb.rs).
EXTENDS Integers, Sequences, FiniteSets, TLC

\* ------------------------------------------------------------------ bounds
MaxLen == 3      \* longest buffer (bytes) the model lets a file grow to
MaxBatch == 2    \* most change events one didChange batch carries
MaxLine == 1     \* largest line number a change range names
MaxCol == 1      \* largest character number a change range names
MaxBody == 2     \* most declarations in the body of the function of a file
MaxChain == 2    \* most ancestors a class of a catalog family has
MaxCalls == 6    \* most activations of get_callable_type the model follows
MaxDepth == 1    \* deepest nesting of the expression a declaration is given
MaxNest == 1     \* deepest nesting of bodies inside the body of the function
MaxStatements == 2  \* most statements in the body of the function a selection is taken from
MaxTypeLen == 4  \* longest type string given to SymbolType::from_str

\* ------------------------------------------------------------- text values
Chars == {"a", "\n"}
Paths == {"p1", "p2"}

RECURSIVE TextsOfLen(_)
TextsOfLen(n) ==
    IF n = 0 THEN {<<>>}
    ELSE {Append(t, c) : t \in TextsOfLen(n - 1), c \in Chars}

Texts == UNION {TextsOfLen(n) : n \in 0..MaxLen}

\* Option values: <<>> is None, <<v>> is Some(v).
None == <<>>
Some(v) == <<v>>

\* number of '\n' in the first n bytes of t
RECURSIVE CountLF(_, _)
CountLF(t, n) ==
    IF n = 0 THEN 0
    ELSE CountLF(t, n - 1) + (IF t[n] = "\n" THEN 1 ELSE 0)

\* Rope::len_lines: a rope always has one more line than it has line breaks
len_lines(t) == CountLF(t, Len(t)) + 1

\* Rope::line_to_byte_idx(line, LF_CR): byte offset at which line `line`
\* starts; line = len_lines gives the length (one past the end).  The caller
\* only evaluates it for line <= len_lines (a larger line panics).
line_to_byte_idx(t, line) ==
    IF line = 0 THEN 0
    ELSE IF line >= len_lines(t) THEN Len(t)
    ELSE CHOOSE i \in 1..Len(t) : t[i] = "\n" /\ CountLF(t, i) = line

\* Rope::remove(start..end) followed by Rope::insert(start, text)
Splice(t, start, end, text) ==
    SubSeq(t, 1, start) \o text \o SubSeq(t, end + 1, Len(t))

Point(row, column) == [row |-> row, column |-> column]

\* utils::position_to_point
position_to_point(position) == Point(position.line, position.character)

\* ------------------------------------------------------------ syntax trees
\* A tree is known by the text it was parsed from and by whether Tree::edit
\* has shifted its positions since that parse.
parse_file(content) == Some([src |-> content, edited |-> FALSE])

reparse_file(content, old_tree) == Some([src |-> content, edited |-> FALSE])

TreeEdit(tree, input_edit) == [tree EXCEPT !.edited = TRUE]

NoFile == [open |-> FALSE, content |-> <<>>, tree |-> [src |-> <<>>, edited |-> FALSE]]

SourceFile(content, tree) == [open |-> TRUE, content |-> content, tree |-> tree]

\* ---------------------------------------------------------- change events
Positions == {[line |-> l, character |-> c] : l \in 0..MaxLine, c \in 0..MaxCol}
Ranges == {[start |-> s, end |-> e] : s \in Positions, e \in Positions}
EditTexts == {<<>>, <<"a">>, <<"\n", "a">>}
NoRange == [start |-> [line |-> 0, character |-> 0], end |-> [line |-> 0, character |-> 0]]

\* TextDocumentContentChangeEvent: range is an Option
ChangeEvents ==
    {[has_range |-> TRUE, range |-> r, text |-> x] : r \in Ranges, x \in EditTexts}
    \cup {[has_range |-> FALSE, range |-> NoRange, text |-> <<"a">>]}

\* text.chars().rev() up to the first '\n'
RECURSIVE trailing_characters(_)
trailing_characters(text) ==
    IF text = <<>> \/ text[Len(text)] = "\n" THEN 0
    ELSE 1 + trailing_characters(SubSeq(text, 1, Len(text) - 1))

StartByte(content, range) ==
    line_to_byte_idx(content, range.start.line) + range.start.character

EndByte(content, range) ==
    line_to_byte_idx(content, range.end.line) + range.end.character

\* The loop body panics where ropey does: a line past len_lines, a reversed
\* byte range, or a range that ends past the buffer.
EditPanics(content, change) ==
    /\ change.has_range
    /\ \/ change.range.start.line > len_lines(content)
       \/ change.range.end.line > len_lines(content)
       \/ StartByte(content, change.range) > EndByte(content, change.range)
       \/ EndByte(content, change.range) > Len(content)

MakeInputEdit(content, change) ==
    LET start == StartByte(content, change.range)
        end == EndByte(content, change.range)
        new_line_breaks == CountLF(change.text, Len(change.text))
    IN  [start_byte |-> start,
         old_end_byte |-> end,
         new_end_byte |-> start + Len(change.text),
         start_position |-> position_to_point(change.range.start),
         old_end_position |-> position_to_point(change.range.end),
         new_end_position |->
             Point(change.range.start.line + new_line_breaks,
                   trailing_characters(change.text))]

\* ------------------------------------------------------------------- state
VARIABLES
    files,       \* FileDatabase.files: path -> SourceFile (open = FALSE: no entry)
    lock,        \* the RwLock around files: "free", "read" or "write"
    wpc,         \* writer: "idle", or "edit" inside the loop of file_changed
    last,        \* the notification being handled, or handled last: op, path, outcome
    closed,      \* history: open paths closed and not opened again since
    rpc,         \* reader: "idle" or "locked" (holds the read guard)
    rpath,       \* reader: path of the inlay-hint request
    rfile,       \* reader: its copy of the buffer (content.to_string())
    pre,         \* history: buffer of the path when the batch began
    expected,    \* history: pre with the batch's changes so far applied in turn
    consumed,    \* history: change events of the batch consumed so far
    shifted,     \* history: a change named a position that earlier ones had moved
    skipped,     \* history: 1 if the first event of the batch had no range, else 0
    reparses,    \* history: calls of reparse_file made by the batch
    prog,        \* the source file handed to build_table, as its declarations
    st,          \* SymbolTable: map (scope id -> Scope) and class_parent
    built,       \* build_table has returned
    typedb,      \* TypeDatabase.classes: class name -> ClassInfo
    query        \* the request that is served: its arguments, position and result

storeVars == <<files, lock, wpc, last, closed, rpc, rpath, rfile>>
batchVars == <<pre, expected, consumed, shifted, skipped, reparses>>
readerVars == <<rpc, rpath, rfile>>

tableVars == <<prog, st, built, typedb, query>>

vars == <<storeVars, batchVars, tableVars>>

\* the tree is the parse of the buffer, with no unparsed edit on it
Coherent(file) == file.tree.src = file.content /\ ~file.tree.edited

\* ApplyChange with the byte offsets taken from the buffer as it was before
\* the batch
ApplyChange_stale(file, change) ==
    LET ie == MakeInputEdit(pre, change)
        n == Len(file.content)
        start == IF ie.start_byte < n THEN ie.start_byte ELSE n
        end == IF ie.old_end_byte < n THEN ie.old_end_byte ELSE n
    IN  SourceFile(Splice(file.content, start, end, change.text),
                   TreeEdit(file.tree, ie))

\* One iteration of the loop of file_changed on a change that has a range and
\* does not panic: the buffer patch and the tree edit.
ApplyChange(file, change) ==
    LET ie == MakeInputEdit(file.content, change)
    IN  SourceFile(Splice(file.content, ie.start_byte, ie.old_end_byte, change.text),
                   TreeEdit(file.tree, ie))

InitStore ==
    /\ files = [p \in Paths |-> NoFile]
    /\ lock = "free"
    /\ wpc = "idle"
    /\ last = [op |-> "none", path |-> "p1", outcome |-> "none"]
    /\ closed = {}
    /\ rpc = "idle"
    /\ rpath = "p1"
    /\ rfile = <<>>
    /\ pre = <<>>
    /\ expected = <<>>
    /\ consumed = 0
    /\ shifted = FALSE
    /\ skipped = 0
    /\ reparses = 0

\* file_opened that keeps an entry the path already has
file_opened_or_insert(file_path, file_content) ==
    /\ wpc = "idle"
    /\ lock = "free"
    /\ files' = IF files[file_path].open THEN files
                ELSE [files EXCEPT ![file_path] = SourceFile(file_content, parse_file(file_content)[1])]
    /\ last' = [op |-> "open", path |-> file_path,
                outcome |-> IF files[file_path].open THEN "replaced" ELSE "created"]
    /\ closed' = closed \ {file_path}
    /\ UNCHANGED <<lock, wpc, readerVars>>

\* Backend::did_open -> FileDatabase::file_opened
file_opened(file_path, file_content) ==
    /\ wpc = "idle"
    /\ lock = "free"
    /\ LET parsed == parse_file(file_content)
       IN  IF parsed = None
           THEN /\ last' = [op |-> "open", path |-> file_path, outcome |-> "no_tree"]
                /\ UNCHANGED <<files, closed>>
           ELSE /\ files' = [files EXCEPT ![file_path] = SourceFile(file_content, parsed[1])]
                /\ last' = [op |-> "open", path |-> file_path,
                            outcome |-> IF files[file_path].open THEN "replaced" ELSE "created"]
                /\ closed' = closed \ {file_path}
    /\ UNCHANGED <<lock, wpc, readerVars>>

\* Backend::did_close
did_close(file_path) ==
    /\ wpc = "idle"
    /\ last' = [op |-> "close", path |-> file_path, outcome |-> "ok"]
    /\ closed' = IF files[file_path].open THEN closed \cup {file_path} ELSE closed
    /\ UNCHANGED <<files, lock, wpc, readerVars>>

\* file_changed_begin that creates an empty entry for a path that has none
file_changed_begin_or_default(file_path) ==
    /\ wpc = "idle"
    /\ lock = "free"
    /\ lock' = "write"
    /\ wpc' = "edit"
    /\ last' = [op |-> "change", path |-> file_path, outcome |-> "running"]
    /\ files' = IF files[file_path].open THEN files
                ELSE [files EXCEPT ![file_path] = SourceFile(<<>>, parse_file(<<>>)[1])]
    /\ UNCHANGED <<closed, readerVars>>

\* Backend::did_change -> file_changed, lines 36-39: take the write guard and
\* look the path up
file_changed_begin(file_path) ==
    /\ wpc = "idle"
    /\ lock = "free"
    /\ IF ~files[file_path].open
       THEN /\ last' = [op |-> "change", path |-> file_path, outcome |-> "missing"]
            /\ UNCHANGED <<lock, wpc>>
       ELSE /\ lock' = "write"
            /\ wpc' = "edit"
            /\ last' = [op |-> "change", path |-> file_path, outcome |-> "running"]
    /\ UNCHANGED <<files, closed, readerVars>>

\* file_changed's loop with a change without range taken as the new text of
\* the whole document
file_changed_edit_replace(change) ==
    /\ wpc = "edit"
    /\ LET file == files[last.path]
       IN  IF ~change.has_range
           THEN /\ files' = [files EXCEPT ![last.path].content = change.text]
                /\ UNCHANGED <<lock, wpc, last>>
           ELSE IF EditPanics(file.content, change)
           THEN /\ lock' = "free"
                /\ wpc' = "idle"
                /\ last' = [last EXCEPT !.outcome = "panic"]
                /\ UNCHANGED files
           ELSE /\ Len(ApplyChange(file, change).content) <= MaxLen
                /\ files' = [files EXCEPT ![last.path] = ApplyChange(file, change)]
                /\ UNCHANGED <<lock, wpc, last>>
    /\ UNCHANGED <<closed, readerVars>>

\* file_changed, lines 40-80: one iteration of the loop, on the next change
\* event of the batch.  A panic unwinds through the write guard, which frees
\* the lock and leaves the entry as the iterations before it left it.
file_changed_edit(change) ==
    /\ wpc = "edit"
    /\ LET file == files[last.path]
       IN  IF ~change.has_range
           THEN UNCHANGED <<files, lock, wpc, last>>
           ELSE IF EditPanics(file.content, change)
           THEN /\ lock' = "free"
                /\ wpc' = "idle"
                /\ last' = [last EXCEPT !.outcome = "panic"]
                /\ UNCHANGED files
           ELSE /\ Len(ApplyChange(file, change).content) <= MaxLen
                /\ files' = [files EXCEPT ![last.path] = ApplyChange(file, change)]
                /\ UNCHANGED <<lock, wpc, last>>
    /\ UNCHANGED <<closed, readerVars>>

\* file_changed, lines 81-84: the batch is exhausted; reparse and drop the guard
file_changed_reparse ==
    /\ wpc = "edit"
    /\ LET file == files[last.path]
           new_tree == reparse_file(file.content, file.tree)
       IN  files' = [files EXCEPT ![last.path].tree =
                        IF new_tree = None THEN file.tree ELSE new_tree[1]]
    /\ lock' = "free"
    /\ wpc' = "idle"
    /\ last' = [last EXCEPT !.outcome = "ok"]
    /\ UNCHANGED <<closed, readerVars>>

\* Backend::inlay_hint -> make_inlay_hints, lines 14-18: take the read guard,
\* look the path up and copy the buffer
make_inlay_hints_begin(path) ==
    /\ rpc = "idle"
    /\ lock = "free"
    /\ IF ~files[path].open
       THEN UNCHANGED <<lock, rpc, rpath, rfile>>
       ELSE /\ lock' = "read"
            /\ rpc' = "locked"
            /\ rpath' = path
            /\ rfile' = files[path].content
    /\ UNCHANGED <<files, wpc, last, closed>>

\* make_inlay_hints, lines 19-67: build the table from the tree and the copy,
\* emit the hints, drop the guard
make_inlay_hints_finish ==
    /\ rpc = "locked"
    /\ lock' = "free"
    /\ rpc' = "idle"
    /\ rpath' = "p1"
    /\ rfile' = <<>>
    /\ UNCHANGED <<files, wpc, last, closed>>

\* ------------------------------------------------------- reference notions
\* (row, column) of byte offset b of text t: the line breaks before b, and
\* the distance of b from the byte after the last of them
PointOfByte(t, b) ==
    LET starts == {i \in 0..b : i = 0 \/ t[i] = "\n"}
        line_start == CHOOSE i \in starts : \A j \in starts : j <= i
    IN  Point(CountLF(t, b), b - line_start)

\* byte offset of a (line, character) position of t
ByteOfPosition(t, position) ==
    LET at == {b \in 0..Len(t) : CountLF(t, b) = position.line}
    IN  (IF at = {} THEN Len(t) ELSE CHOOSE b \in at : \A c \in at : b <= c)
        + position.character

\* what one change event means for a text t: the bytes from its start position
\* to its end position give way to its text; without a range, nothing changes
ChangeApplied(t, c) ==
    IF c.has_range
    THEN LET s == ByteOfPosition(t, c.range.start)
             e == ByteOfPosition(t, c.range.end)
         IN  SubSeq(t, 1, s) \o c.text \o SubSeq(t, e + 1, Len(t))
    ELSE t


\* ------------------------------------------------- history of a change batch
RecordReset ==
    /\ pre' = <<>> /\ expected' = <<>> /\ consumed' = 0 /\ shifted' = FALSE
    /\ skipped' = 0
    /\ reparses' = 0

RecordBegin(file_path) ==
    /\ pre' = files[file_path].content
    /\ expected' = files[file_path].content
    /\ consumed' = 0 /\ shifted' = FALSE
    /\ skipped' = 0
    /\ reparses' = 0

RecordEdit(change) ==
    /\ consumed < MaxBatch
    /\ expected' = ChangeApplied(expected, change)
    /\ consumed' = consumed + 1
    /\ shifted' = (shifted \/ (/\ change.has_range
                               /\ ByteOfPosition(pre, change.range.start)
                                    /= ByteOfPosition(expected, change.range.start)))
    /\ skipped' = IF ~change.has_range /\ consumed = 0 THEN 1 ELSE skipped
    /\ UNCHANGED <<pre, reparses>>

RecordReparse ==
    /\ reparses' = reparses + 1
    /\ UNCHANGED <<pre, expected, consumed, shifted, skipped>>

\* ------------------------------------------------------------ type catalog
\* SymbolType: Variant(kind) | Array(kind) | Object(name) | OjbectArray(name)
Variant(kind) == [tag |-> "Variant", name |-> kind]
Object(name) == [tag |-> "Object", name |-> name]

\* VariantType's strum names that the model's files use
VariantNames ==
    [int |-> "Int", bool |-> "Bool", float |-> "Float", String |-> "String",
     Vector3 |-> "Vector3"]

\* SymbolType::from_str on a name without the "[]" suffix
from_str(s) ==
    IF s \in DOMAIN VariantNames THEN Variant(VariantNames[s]) ELSE Object(s)

\* SymbolType::to_string on Variant and Object
to_string(t) ==
    IF t.tag = "Variant"
    THEN CHOOSE s \in DOMAIN VariantNames : VariantNames[s] = t.name
    ELSE t.name

\* the global-scope pseudo-class of the catalog
GlobalScope == "@GlobalScope"

\* a HashMap without entries
NoEntries == [n \in {} |-> None]

ClassInfo(parent, properties, methods, constructor, constants) ==
    [parent |-> parent, properties |-> properties, methods |-> methods,
     constructor |-> constructor, constants |-> constants]

\* TypeDatabase.classes: the part of the catalog the model's files reach
Classes ==
    [Child |-> ClassInfo(Some("Base"), [x |-> Variant("Float")],
                         [get_x |-> Variant("Float")], None, NoEntries),
     Base |-> ClassInfo(None, [b |-> Object("Node")],
                        [size |-> Variant("Int")], None, NoEntries),
     Vector3 |-> ClassInfo(None, [x |-> Variant("Float")],
                           [length |-> Variant("Float")], Some(Variant("Vector3")),
                           [ZERO |-> "Vector3(0.0,0.0,0.0)", AXIS_X |-> "0"])]
    @@ (GlobalScope :> ClassInfo(None, NoEntries,
                                 [max |-> Object("Variant"), randi |-> Variant("Int")],
                                 None, NoEntries))

\* get_symbol_type that looks at the class's own properties only
typedb_get_symbol_type_own(class, symbol) ==
    IF class \in DOMAIN typedb /\ symbol \in DOMAIN typedb[class].properties
    THEN Some(typedb[class].properties[symbol])
    ELSE None

\* TypeDatabase::get_symbol_type
RECURSIVE typedb_get_symbol_type(_, _)
typedb_get_symbol_type(class, symbol) ==
    IF class \in DOMAIN typedb
    THEN IF symbol \in DOMAIN typedb[class].properties
         THEN Some(typedb[class].properties[symbol])
         ELSE IF typedb[class].parent /= None
         THEN typedb_get_symbol_type(typedb[class].parent[1], symbol)
         ELSE None
    ELSE None

\* One activation of TypeDatabase::get_callable_type: it returns, or it calls
\* itself on the parent ("parent"), or on the global scope ("retry").
get_callable_type_activation(class, callable) ==
    IF class \in DOMAIN typedb /\ callable \in DOMAIN typedb[class].methods
    THEN [tag |-> "return", class |-> class,
          result |-> Some(typedb[class].methods[callable])]
    ELSE IF class \in DOMAIN typedb /\ typedb[class].parent /= None
    THEN [tag |-> "parent", class |-> typedb[class].parent[1], result |-> None]
    ELSE IF class /= GlobalScope
    THEN [tag |-> "retry", class |-> GlobalScope, result |-> None]
    ELSE [tag |-> "return", class |-> class, result |-> None]

\* TypeDatabase::get_callable_type, as the value it returns when it returns
RECURSIVE get_callable_type(_, _)
get_callable_type(class, callable) ==
    LET a == get_callable_type_activation(class, callable)
    IN  IF a.tag = "return" THEN a.result ELSE get_callable_type(a.class, callable)

\* the catalog's operator tables, for the types the model's files use
BinaryOperators ==
    {[left |-> "int", op |-> "+", right |-> Variant("Int"), result |-> Variant("Int")],
     [left |-> "int", op |-> "+", right |-> Variant("Float"), result |-> Variant("Float")],
     [left |-> "float", op |-> "+", right |-> Variant("Float"), result |-> Variant("Float")],
     [left |-> "float", op |-> "+", right |-> Variant("Int"), result |-> Variant("Float")],
     [left |-> "int", op |-> "<", right |-> Variant("Int"), result |-> Variant("Bool")],
     [left |-> "float", op |-> "<", right |-> Variant("Float"), result |-> Variant("Bool")],
     [left |-> "String", op |-> "+", right |-> Variant("String"), result |-> Variant("String")],
     [left |-> "Vector3", op |-> "+", right |-> Variant("Vector3"), result |-> Variant("Vector3")]}

UnaryOperators ==
    {[operand |-> "int", op |-> "-", result |-> Variant("Int")],
     [operand |-> "float", op |-> "-", result |-> Variant("Float")],
     [operand |-> "Vector3", op |-> "-", result |-> Variant("Vector3")]}

\* TypeDatabase::get_binary_operator_type
get_binary_operator_type(left_type_str, op, right_type) ==
    LET found == {e \in BinaryOperators :
                    e.left = left_type_str /\ e.op = op /\ e.right = right_type}
    IN  IF found = {} THEN None ELSE Some((CHOOSE e \in found : TRUE).result)

\* TypeDatabase::get_unary_operator_type
get_unary_operator_type(operand_type_str, op) ==
    LET found == {e \in UnaryOperators : e.operand = operand_type_str /\ e.op = op}
    IN  IF found = {} THEN None ELSE Some((CHOOSE e \in found : TRUE).result)

\* ----------------------------------------------------- families of catalogs
\* An inheritance chain of up to MaxChain + 1 classes under `Child`: the
\* parent of a class is a class later in ChainNames (the graph is acyclic), or
\* none; the last class may name a parent the catalog does not have.
ChainNames == <<"Child", "Base", "Root", "Top", "Apex">>

ChainClasses == {ChainNames[i] : i \in 1..(MaxChain + 1)}

ChainIndex(c) == CHOOSE i \in 1..Len(ChainNames) : ChainNames[i] = c

ParentChoices(c) ==
    {None}
    \cup {Some(ChainNames[j]) : j \in (ChainIndex(c) + 1)..(MaxChain + 1)}
    \cup (IF ChainIndex(c) = MaxChain + 1 THEN {Some("Missing")} ELSE {})

ParentMaps ==
    {par \in [ChainClasses -> {None, Some("Missing")} \cup {Some(c) : c \in ChainClasses}] :
        \A c \in ChainClasses : par[c] \in ParentChoices(c)}

\* property `b` of class c has type Object(c): the type tells the owner
PropertyCatalogs ==
    {[c \in ChainClasses |->
        ClassInfo(par[c],
                  [n \in (IF c \in owners THEN {"b"} ELSE {}) |-> Object(c)],
                  NoEntries, None, NoEntries)] :
        par \in ParentMaps, owners \in SUBSET ChainClasses}

\* method `f` of class c returns Object(c).  The global scope is absent, or
\* present with or without `f` and with no parent or a class of the chain as
\* its parent: the graph stays acyclic, no class of the chain has the global
\* scope above it.
GlobalChoices ==
    {None}
    \cup {Some(ClassInfo(par, NoEntries,
                         [n \in (IF has THEN {"f"} ELSE {}) |-> Object(GlobalScope)],
                         None, NoEntries)) :
             par \in {None} \cup {Some(c) : c \in ChainClasses}, has \in BOOLEAN}

MethodCatalogs ==
    {[c \in ChainClasses \cup (IF g = None THEN {} ELSE {GlobalScope}) |->
        IF c = GlobalScope THEN g[1]
        ELSE ClassInfo(par[c], NoEntries,
                       [n \in (IF c \in owners THEN {"f"} ELSE {}) |-> Object(c)],
                       None, NoEntries)] :
        par \in ParentMaps, owners \in SUBSET ChainClasses, g \in GlobalChoices}

\* ------------------------------------------------------------ source files
\* A file is: an optional `extends Child`, an optional declaration, one
\* function `func foo():` or `func foo(b: int):` with up to MaxBody declarations
\* in its body, an optional declaration.  Declarations are `var <name> = <e>`.
Names == {"b", "x"}

Exprs ==
    {[kind |-> "integer", text |-> "1", width |-> 1],
     [kind |-> "true", text |-> "true", width |-> 4],
     [kind |-> "identifier", text |-> "b", width |-> 1]}

Decls == {[name |-> n, value |-> e] : n \in Names, e \in Exprs}

RECURSIVE DeclSeqs(_)
DeclSeqs(n) ==
    IF n = 0 THEN {<<>>}
    ELSE DeclSeqs(n - 1) \cup {Append(q, d) : q \in DeclSeqs(n - 1), d \in Decls}

OptDecls == {None} \cup {Some(d) : d \in Decls}

Programs ==
    {[ext |-> x, before |-> b, param |-> p, body |-> q, after |-> a] :
        x \in BOOLEAN, b \in OptDecls, p \in BOOLEAN, q \in DeclSeqs(MaxBody),
        a \in OptDecls}

\* The syntax tree of a file: nodes with the byte offsets of the file's text.
\* `var n = e` is 8 bytes up to e; statements of a body are "\n\t" apart.
RootId == 1
BodyId == 2
ExtendsWidth == 14      \* "extends Child\n"
FuncHeaderWidth == 13   \* "func foo():\n\t"
ParamWidth == 6         \* "b: int"

VarNode(d, o) ==
    [kind |-> "variable_statement", start_byte |-> o,
     end_byte |-> o + 8 + d.value.width,
     name |-> d.name, type |-> None,
     value |-> Some([kind |-> d.value.kind, start_byte |-> o + 8, text |-> d.value.text])]

RECURSIVE BodyNodes(_, _)
BodyNodes(decls, o) ==
    IF decls = <<>> THEN <<>>
    ELSE <<VarNode(Head(decls), o)>>
         \o BodyNodes(Tail(decls), VarNode(Head(decls), o).end_byte + 2)

ParseProgram(p) ==
    LET o1 == IF p.ext THEN ExtendsWidth ELSE 0
        ext == IF p.ext
               THEN <<[kind |-> "extends_statement", start_byte |-> 0,
                       end_byte |-> ExtendsWidth - 1, type |-> Some("Child")]>>
               ELSE <<>>
        bef == IF p.before = None THEN <<>> ELSE <<VarNode(p.before[1], o1)>>
        o2 == IF p.before = None THEN o1 ELSE bef[1].end_byte + 1
        bstart == o2 + FuncHeaderWidth + (IF p.param THEN ParamWidth ELSE 0)
        stmts == IF p.body = <<>>
                 THEN <<[kind |-> "pass_statement", start_byte |-> bstart,
                         end_byte |-> bstart + 4]>>
                 ELSE BodyNodes(p.body, bstart)
        bend == stmts[Len(stmts)].end_byte
        fun == [kind |-> "function_definition", start_byte |-> o2, end_byte |-> bend,
                parameters |-> IF p.param
                               THEN <<[kind |-> "typed_parameter", name |-> "b",
                                       type |-> Some("int")]>>
                               ELSE <<>>,
                body |-> [id |-> BodyId, kind |-> "body", start_byte |-> bstart,
                          end_byte |-> bend, children |-> stmts]]
        aft == IF p.after = None THEN <<>> ELSE <<VarNode(p.after[1], bend + 1)>>
        fend == IF p.after = None THEN bend ELSE aft[1].end_byte
    IN  [id |-> RootId, kind |-> "source", start_byte |-> 0, end_byte |-> fend,
         children |-> ext \o bef \o <<fun>> \o aft]

\* ------------------------------------------------------------ expressions
\* Expression nodes of the syntax tree: kind, text (node_content; kept for
\* leaves), width in bytes, start_byte, children.
Leaf(kind, text, width) ==
    [kind |-> kind, text |-> text, width |-> width, start_byte |-> 0, children |-> <<>>]

Token(t) == Leaf(t, t, 1)

RECURSIVE WidthOf(_)
WidthOf(nodes) == IF nodes = <<>> THEN 0 ELSE Head(nodes).width + WidthOf(Tail(nodes))

Inner(kind, children) ==
    [kind |-> kind, text |-> "", width |-> WidthOf(children), start_byte |-> 0,
     children |-> children]

NameWidth ==
    [a |-> 1, v |-> 1, n |-> 1, u |-> 1, x |-> 1, b |-> 1, s |-> 1, r |-> 1,
     Vector3 |-> 7, Child |-> 5, ZERO |-> 4, AXIS_X |-> 6, length |-> 6, size |-> 4,
     max |-> 3, randi |-> 5, foo |-> 3, get_x |-> 5]

Identifier(name) == Leaf("identifier", name, NameWidth[name])

Literals ==
    {Leaf("integer", "1", 1), Leaf("float", "1.0", 3), Leaf("true", "true", 4),
     Leaf("string", "\"s\"", 3)}

\* `func(): pass`: an expression kind infer_type has no rule for
Lambda == Leaf("lambda", "func(): pass", 12)

Leaves == Literals \cup {Identifier(name) : name \in {"a", "v", "n", "u"}} \cup {Lambda}

\* `(`, the arguments separated by `,`, `)`
RECURSIVE Separated(_)
Separated(args) ==
    IF Len(args) <= 1 THEN args
    ELSE <<Head(args), Token(",")>> \o Separated(Tail(args))

Arguments(args) == Inner("arguments", <<Token("(")>> \o Separated(args) \o <<Token(")")>>)

Call(name, args) == Inner("call", <<Identifier(name), Arguments(args)>>)

Attribute(lhs, member) == Inner("attribute", <<lhs, Token("."), member>>)

AttributeCall(name) == Inner("attribute_call", <<Identifier(name), Arguments(<<>>)>>)

AttributeSubscript(name) ==
    Inner("attribute_subscript",
          <<Identifier(name), Token("["), Leaf("integer", "1", 1), Token("]")>>)

BinaryOperator(left, op, right) == Inner("binary_operator", <<left, Token(op), right>>)

Parenthesized(e) == Inner("parenthesized_expression", <<Token("("), e, Token(")")>>)

UnaryOperator(op, e) == Inner("unary_operator", <<Token(op), e>>)

Members ==
    {Identifier(name) : name \in {"x", "b", "ZERO", "AXIS_X"}}
    \cup {AttributeCall(name) : name \in {"length", "size"}}
    \cup {AttributeSubscript("x")}

CallNames == {"max", "randi", "Vector3", "foo", "get_x", "size"}

ArgumentLists(es) ==
    {<<>>} \cup {<<e>> : e \in es} \cup {<<e, Leaf("float", "1.0", 3)>> : e \in es}

\* the expressions nested at most depth deep
RECURSIVE Expressions(_)
Expressions(depth) ==
    IF depth = 0 THEN Leaves
    ELSE LET es == Expressions(depth - 1)
         IN  es
             \cup {Attribute(lhs, member) :
                     lhs \in {Identifier(name) : name \in {"a", "v", "u", "Vector3", "Child"}}
                             \cup {Parenthesized(e) : e \in es},
                     member \in Members}
             \cup {Call(name, args) : name \in CallNames, args \in ArgumentLists(es)}
             \cup {BinaryOperator(left, op, right) :
                     left \in es, op \in {"+", "<"}, right \in Leaves}
             \cup {Parenthesized(e) : e \in es}
             \cup {UnaryOperator("-", e) : e \in es}

\* the node with the byte offsets of a text that has it at offset o
RECURSIVE Place(_, _)
RECURSIVE PlaceAll(_, _)
Place(node, o) ==
    [node EXCEPT !.start_byte = o, !.children = PlaceAll(node.children, o)]

PlaceAll(nodes, o) ==
    IF nodes = <<>> THEN <<>>
    ELSE <<Place(Head(nodes), o)>> \o PlaceAll(Tail(nodes), o + Head(nodes).width)

\* parse_file on the literal text of a constant of the catalog, and the
\* expression of its expression statement (root.child(0)?.child(0)?)
parse_constant(value) ==
    CASE value = "Vector3(0.0,0.0,0.0)" ->
            Some(Place(Call("Vector3", <<Leaf("float", "0.0", 3), Leaf("float", "0.0", 3),
                                         Leaf("float", "0.0", 3)>>), 0))
      [] value = "0" -> Some(Place(Leaf("integer", "0", 1), 0))
      [] OTHER -> None

\* A file that declares `r` by an expression:
\*   [extends Child] func foo(a: Child, v: Vector3, n: int): var r = <e>; var s = 1
InferHeaderWidth == 41   \* "func foo(a: Child, v: Vector3, n: int):\n\t"

InferPrograms == {[ext |-> x, expr |-> e] : x \in BOOLEAN, e \in Expressions(MaxDepth)}

InferParameters ==
    <<[kind |-> "typed_parameter", name |-> "a", type |-> Some("Child")],
      [kind |-> "typed_parameter", name |-> "v", type |-> Some("Vector3")],
      [kind |-> "typed_parameter", name |-> "n", type |-> Some("int")]>>

ParseInfer(p) ==
    LET o1 == IF p.ext THEN ExtendsWidth ELSE 0
        ext == IF p.ext
               THEN <<[kind |-> "extends_statement", start_byte |-> 0,
                       end_byte |-> ExtendsWidth - 1, type |-> Some("Child")]>>
               ELSE <<>>
        bstart == o1 + InferHeaderWidth
        r == [kind |-> "variable_statement", start_byte |-> bstart,
              end_byte |-> bstart + 8 + p.expr.width,
              name |-> "r", type |-> None, value |-> Some(Place(p.expr, bstart + 8))]
        s == [kind |-> "variable_statement", start_byte |-> r.end_byte + 2,
              end_byte |-> r.end_byte + 11,
              name |-> "s", type |-> None,
              value |-> Some(Place(Leaf("integer", "1", 1), r.end_byte + 10))]
        fun == [kind |-> "function_definition", start_byte |-> o1, end_byte |-> s.end_byte,
                parameters |-> InferParameters,
                body |-> [id |-> BodyId, kind |-> "body", start_byte |-> bstart,
                          end_byte |-> s.end_byte, children |-> <<r, s>>]]
    IN  [id |-> RootId, kind |-> "source", start_byte |-> 0, end_byte |-> s.end_byte,
         children |-> ext \o <<fun>>]

\* ------------------------------------------------------- files with bodies
\* A file `func foo(<parameters>): <block>`.  A block is a declaration by a
\* literal, or a statement with a nested body (if with elif and else, for,
\* while, match with one arm) around a block, after an optional declaration.
ScopeDecls ==
    {[name |-> "i", value |-> [kind |-> "integer", text |-> "1", width |-> 1]],
     [name |-> "f", value |-> [kind |-> "float", text |-> "1.0", width |-> 3]],
     [name |-> "t", value |-> [kind |-> "true", text |-> "true", width |-> 4]],
     [name |-> "s", value |-> [kind |-> "string", text |-> "\"s\"", width |-> 3]]}

DeclOf(name) == CHOOSE d \in ScopeDecls : d.name = name

Constructs == {"if_statement", "for_statement", "while_statement", "match_statement"}

\* bytes from the start of the statement to the start of its body
ConstructHeader ==
    [if_statement |-> 10, for_statement |-> 20, while_statement |-> 13,
     match_statement |-> 15]

RECURSIVE Blocks(_)
Blocks(depth) ==
    IF depth = 0 THEN {<<[kind |-> "var", decl |-> d, block |-> <<>>]>> : d \in ScopeDecls}
    ELSE LET inner == Blocks(depth - 1)
             nest == {[kind |-> c, decl |-> DeclOf("i"), block |-> b] :
                        c \in Constructs, b \in inner}
         IN  inner
             \cup {<<n>> : n \in nest}
             \cup {<<[kind |-> "var", decl |-> DeclOf("i"), block |-> <<>>], n>> : n \in nest}

\* the parameter kinds of the grammar: p, p: int, p = 1, p: int = 1
ParameterKinds ==
    {"identifier", "typed_parameter", "default_parameter", "typed_default_parameter"}

ParameterWidth ==
    [identifier |-> 2, typed_parameter |-> 7, default_parameter |-> 6,
     typed_default_parameter |-> 11]

ParameterLists ==
    {<<>>} \cup {<<k>> : k \in ParameterKinds}
    \cup {<<k1, k2>> : k1 \in ParameterKinds, k2 \in ParameterKinds}

ScopePrograms == {[parameters |-> ps, block |-> b] : ps \in ParameterLists, b \in Blocks(MaxNest)}

ParameterNode(kind, i) ==
    [kind |-> kind, name |-> IF i = 1 THEN "p1" ELSE "p2",
     type |-> IF kind \in {"typed_parameter", "typed_default_parameter"}
              THEN Some("int") ELSE None]

\* the body node of a block whose first statement starts at offset o; the
\* bodies nested in the body with identity id have identities 4 * id + 1..3
RECURSIVE ParseBlock(_, _, _)
RECURSIVE ParseStatements(_, _, _)
ParseStatement(s, id, o) ==
    LET hdr == ConstructHeader[s.kind]
        body == ParseBlock(s.block, 4 * id + 1, o + hdr)
        elif == ParseBlock(<<[kind |-> "var", decl |-> DeclOf("t"), block |-> <<>>]>>,
                           4 * id + 2, body.end_byte + 13)
        else == ParseBlock(<<[kind |-> "var", decl |-> DeclOf("s"), block |-> <<>>]>>,
                           4 * id + 3, elif.end_byte + 8)
    IN  CASE s.kind = "var" -> VarNode(s.decl, o)
          [] s.kind = "if_statement" ->
                [kind |-> s.kind, start_byte |-> o, end_byte |-> else.end_byte,
                 body |-> body,
                 alternatives |-> <<[kind |-> "elif_clause", body |-> elif],
                                    [kind |-> "else_clause", body |-> else]>>]
          [] s.kind = "match_statement" ->
                [kind |-> s.kind, start_byte |-> o, end_byte |-> body.end_byte,
                 body |-> Some([kind |-> "match_body",
                                children |-> <<[kind |-> "pattern_section",
                                                body |-> Some(body)]>>])]
          [] OTHER ->
                [kind |-> s.kind, start_byte |-> o, end_byte |-> body.end_byte,
                 body |-> body]

ParseStatements(block, id, o) ==
    IF block = <<>> THEN <<>>
    ELSE LET first == ParseStatement(Head(block), id, o)
         IN  <<first>> \o ParseStatements(Tail(block), id, first.end_byte + 2)

ParseBlock(block, id, o) ==
    LET children == ParseStatements(block, id, o)
    IN  [id |-> id, kind |-> "body", start_byte |-> o,
         end_byte |-> children[Len(children)].end_byte, children |-> children]

ParseScopes(p) ==
    LET ps == p.parameters
        bstart == 9 + (IF Len(ps) >= 1 THEN ParameterWidth[ps[1]] ELSE 0)
                    + (IF Len(ps) = 2 THEN 2 + ParameterWidth[ps[2]] ELSE 0) + 4
        body == ParseBlock(p.block, BodyId, bstart)
        fun == [kind |-> "function_definition", start_byte |-> 0, end_byte |-> body.end_byte,
                parameters |-> [i \in 1..Len(ps) |-> ParameterNode(ps[i], i)],
                body |-> body]
    IN  [id |-> RootId, kind |-> "source", start_byte |-> 0, end_byte |-> body.end_byte,
         children |-> <<fun>>]

\* ------------------------------------------------------------ symbol table
Symbol(name, byte, static_typed, ttype) ==
    [name |-> name, byte |-> byte, static_typed |-> static_typed, ttype |-> ttype]

\* SymbolTable::new
NewTable == [map |-> <<>>, class_parent |-> None, unwound |-> FALSE]

\* insert_new_scope that stores the scope's own key as its parent
insert_new_scope_self(t, body, parent_scope) ==
    [t EXCEPT !.map = [k \in DOMAIN t.map \cup {body.id} |->
                          IF k = body.id
                          THEN [id |-> body.id, parent |-> body.id, vars |-> <<>>]
                          ELSE t.map[k]]]

\* SymbolTable::insert_new_scope
insert_new_scope(t, body, parent_scope) ==
    [t EXCEPT !.map = [k \in DOMAIN t.map \cup {body.id} |->
                          IF k = body.id
                          THEN [id |-> body.id, parent |-> parent_scope, vars |-> <<>>]
                          ELSE t.map[k]]]

PushSymbol(t, scope_id, symbol) ==
    [t EXCEPT !.map[scope_id].vars = Append(@, symbol)]

\* the loop of get_symbol_type that tests the name before the offset, so that
\* no symbol of the scope is ever hidden by its position
RECURSIVE ScanVars_unordered(_, _, _, _)
ScanVars_unordered(scope_vars, symbol, position, i) ==
    IF i > Len(scope_vars) THEN [found |-> FALSE, ttype |-> None]
    ELSE IF scope_vars[i].name = symbol THEN [found |-> TRUE, ttype |-> scope_vars[i].ttype]
    ELSE ScanVars_unordered(scope_vars, symbol, position, i + 1)

\* get_symbol_type, lines 276-283: the scan of one scope's symbols
RECURSIVE ScanVars(_, _, _, _)
ScanVars(scope_vars, symbol, position, i) ==
    IF i > Len(scope_vars) THEN [found |-> FALSE, ttype |-> None]
    ELSE IF scope_vars[i].byte >= position THEN [found |-> FALSE, ttype |-> None]
    ELSE IF scope_vars[i].name = symbol THEN [found |-> TRUE, ttype |-> scope_vars[i].ttype]
    ELSE ScanVars(scope_vars, symbol, position, i + 1)

\* SymbolTable::get_symbol_type
RECURSIVE get_symbol_type(_, _, _, _)
get_symbol_type(t, scope, symbol, position) ==
    IF scope = 0 /\ t.class_parent /= None
    THEN typedb_get_symbol_type(to_string(t.class_parent[1]), symbol)
    ELSE IF scope \notin DOMAIN t.map THEN None
    ELSE LET r == ScanVars(t.map[scope].vars, symbol, position, 1)
         IN  IF r.found THEN r.ttype
             ELSE get_symbol_type(t, t.map[scope].parent, symbol, position)

\* SymbolTable::infer_identifier_type
infer_identifier_type(t, scope_id, identifier) ==
    get_symbol_type(t, scope_id, identifier.text, identifier.start_byte)

\* what an inference that panics gives: the panic unwinds through its callers
Unwind == Some([tag |-> "Unwind", name |-> "unreachable!"])

\* the `?` operator returns early on None; a panic passes every frame
Failed(r) == r = None \/ r = Unwind

RECURSIVE infer_type(_, _, _)

\* SymbolTable::infer_parenthesized_expression_type
infer_parenthesized_expression_type(t, scope_id, node) ==
    IF Len(node.children) < 2 THEN None
    ELSE infer_type(t, scope_id, node.children[2])

\* SymbolTable::infer_unary_operator_type
infer_unary_operator_type(t, scope_id, node) ==
    IF Len(node.children) < 2 THEN None
    ELSE LET inner_type == infer_type(t, scope_id, node.children[2])
         IN  IF Failed(inner_type) THEN inner_type
             ELSE get_unary_operator_type(to_string(inner_type[1]), node.children[1].kind)

\* infer_binary_operator_type that does not look at the right operand's type
infer_binary_operator_type_left(t, scope_id, bin_op) ==
    LET left_type == infer_type(t, scope_id, bin_op.children[1])
        found == {e \in BinaryOperators :
                    e.left = to_string(left_type[1]) /\ e.op = bin_op.children[2].kind}
    IN  IF Failed(left_type) THEN left_type
        ELSE IF found = {} THEN None ELSE Some((CHOOSE e \in found : TRUE).result)

\* SymbolTable::infer_binary_operator_type
infer_binary_operator_type(t, scope_id, bin_op) ==
    LET left_node == bin_op.children[1]
        right_node == bin_op.children[3]
        left_type == infer_type(t, scope_id, left_node)
        right_type == infer_type(t, scope_id, right_node)
    IN  IF Failed(left_type) THEN left_type
        ELSE IF Failed(right_type) THEN right_type
        ELSE get_binary_operator_type(to_string(left_type[1]), bin_op.children[2].kind,
                                      right_type[1])

\* SymbolTable::infer_call_type
infer_call_type(t, scope_id, node) ==
    LET name == node.children[1].text
        infered_type == get_callable_type(to_string(t.class_parent[1]), name)
        arguments == node.children[2]
    IN  IF name \in DOMAIN typedb /\ typedb[name].constructor /= None
        THEN typedb[name].constructor
        ELSE IF t.class_parent /= None
        THEN IF infered_type = Some(Object("Variant")) /\ Len(arguments.children) >= 2
             THEN infer_type(t, scope_id, arguments.children[2])
             ELSE infered_type
        ELSE None

\* the class-constant arm read as a property of the class
infer_class_constant_type_property(t, type_info, field_name) ==
    IF field_name \in DOMAIN type_info.properties
    THEN Some(type_info.properties[field_name])
    ELSE None

\* infer_attribute_type, lines 223-229: the constant of a class, by its text
infer_class_constant_type(t, type_info, field_name) ==
    IF field_name \notin DOMAIN type_info.constants THEN None
    ELSE LET parsed == parse_constant(type_info.constants[field_name])
         IN  IF parsed = None THEN None ELSE infer_type(t, 0, parsed[1])

\* infer_attribute_type, lines 231-232: the property of an instance
infer_property_type(type_name, type_info, field_name) ==
    IF field_name \in DOMAIN type_info.properties
    THEN Some(type_info.properties[field_name])
    ELSE None

\* SymbolTable::infer_attribute_type
infer_attribute_type(t, scope_id, node) ==
    LET lhs_node == node.children[1]
        name == lhs_node.text
        parenthesized == lhs_node.kind = "parenthesized_expression"
        paren_expr_type == infer_parenthesized_expression_type(t, scope_id, lhs_node)
        ttype == get_symbol_type(t, scope_id, name, lhs_node.start_byte)
        is_class == ~parenthesized /\ ttype = None
        type_name == IF parenthesized THEN to_string(paren_expr_type[1])
                     ELSE IF ttype /= None THEN to_string(ttype[1])
                     ELSE name
        attribute_node == node.children[3]
    IN  IF parenthesized /\ Failed(paren_expr_type) THEN paren_expr_type
        ELSE IF type_name \notin DOMAIN typedb THEN None
        ELSE LET type_info == typedb[type_name]
             IN  CASE attribute_node.kind = "identifier" ->
                        IF is_class
                        THEN infer_class_constant_type(t, type_info, attribute_node.text)
                        ELSE infer_property_type(type_name, type_info, attribute_node.text)
                   [] attribute_node.kind = "attribute_call" ->
                        LET method_name == attribute_node.children[1].text
                        IN  IF method_name \in DOMAIN type_info.methods
                            THEN Some(type_info.methods[method_name])
                            ELSE None
                   [] OTHER -> Unwind

\* SymbolTable::infer_type
infer_type(t, scope_id, node) ==
    CASE node.kind = "integer" -> Some(Variant("Int"))
      [] node.kind = "float" -> Some(Variant("Float"))
      [] node.kind \in {"false", "true"} -> Some(Variant("Bool"))
      [] node.kind = "string" -> Some(Variant("String"))
      [] node.kind = "binary_operator" -> infer_binary_operator_type(t, scope_id, node)
      [] node.kind = "identifier" -> infer_identifier_type(t, scope_id, node)
      [] node.kind = "attribute" -> infer_attribute_type(t, scope_id, node)
      [] node.kind = "call" -> infer_call_type(t, scope_id, node)
      [] node.kind = "parenthesized_expression" ->
            infer_parenthesized_expression_type(t, scope_id, node)
      [] node.kind = "unary_operator" -> infer_unary_operator_type(t, scope_id, node)
      [] OTHER -> None

\* build_body, lines 105-128: one symbol per typed parameter
RECURSIVE PushParameters(_, _, _, _, _)
PushParameters(t, new_scope_id, parameters, function_begins, i) ==
    IF i > Len(parameters) THEN t
    ELSE LET parameter == parameters[i]
             ttype == IF parameter.type /= None THEN Some(from_str(parameter.type[1]))
                      ELSE None
             u == IF parameter.kind = "typed_parameter"
                  THEN PushSymbol(t, new_scope_id,
                                  Symbol(parameter.name, function_begins, TRUE, ttype))
                  ELSE t
         IN  PushParameters(u, new_scope_id, parameters, function_begins, i + 1)

RECURSIVE build_body(_, _, _)

\* build_body, lines 140-144: a scope for the body of each elif/else clause
RECURSIVE BuildAlternatives(_, _, _, _)
BuildAlternatives(t, alternatives, current_scope_id, i) ==
    IF i > Len(alternatives) \/ t.unwound THEN t
    ELSE LET body_node == alternatives[i].body
             t1 == insert_new_scope(t, body_node, current_scope_id)
         IN  BuildAlternatives(build_body(t1, body_node, 1), alternatives,
                               current_scope_id, i + 1)

\* build_body, lines 164-170: a scope for the body of each pattern section
RECURSIVE BuildPatternSections(_, _, _, _)
BuildPatternSections(t, sections, current_scope_id, i) ==
    IF i > Len(sections) \/ t.unwound THEN t
    ELSE LET pattern_body == sections[i].body
             t1 == IF pattern_body = None THEN t
                   ELSE build_body(insert_new_scope(t, pattern_body[1], current_scope_id),
                                   pattern_body[1], 1)
         IN  BuildPatternSections(t1, sections, current_scope_id, i + 1)

\* SymbolTable::build_body: the walk over the children of body from child i on
build_body(t, body, i) ==
    IF i > Len(body.children) \/ t.unwound THEN t
    ELSE LET child == body.children[i]
             current_scope_id == body.id
             u == CASE child.kind \in {"variable_statement", "const_statement"} ->
                         LET static_typed == child.type /= None
                             ttype == IF child.type /= None
                                      THEN Some(from_str(child.type[1]))
                                      ELSE IF child.value /= None
                                      THEN infer_type(t, current_scope_id, child.value[1])
                                      ELSE None
                         IN  IF ttype = Unwind THEN [t EXCEPT !.unwound = TRUE]
                             ELSE PushSymbol(t, current_scope_id,
                                             Symbol(child.name, child.end_byte, static_typed, ttype))
                    [] child.kind = "function_definition" ->
                         LET body_node == child.body
                             t1 == insert_new_scope(t, body_node, current_scope_id)
                             t2 == PushParameters(t1, body_node.id, child.parameters,
                                                  body_node.start_byte, 1)
                         IN  build_body(t2, body_node, 1)
                    [] child.kind = "if_statement" ->
                         LET body_node == child.body
                             t1 == insert_new_scope(t, body_node, current_scope_id)
                         IN  BuildAlternatives(build_body(t1, body_node, 1),
                                               child.alternatives, current_scope_id, 1)
                    [] child.kind \in {"elif_clause", "else_clause", "for_statement"} ->
                         LET body_node == child.body
                         IN  build_body(insert_new_scope(t, body_node, current_scope_id),
                                        body_node, 1)
                    [] child.kind = "match_statement" ->
                         IF child.body = None THEN t
                         ELSE BuildPatternSections(t, child.body[1].children,
                                                   current_scope_id, 1)
                    [] child.kind = "extends_statement" ->
                         [t EXCEPT !.class_parent =
                             IF child.type /= None THEN Some(from_str(child.type[1]))
                             ELSE None]
                    [] OTHER -> t
         IN  build_body(u, body, i + 1)

\* SymbolTable::build_table
build_table(tree) ==
    LET t1 == insert_new_scope(NewTable, tree, 0)
        t2 == build_body(t1, tree, 1)
    IN  IF t2.unwound THEN t2
        ELSE [t2 EXCEPT !.map[tree.id].vars =
                 [k \in DOMAIN @ |-> [@[k] EXCEPT !.byte = 0]]]

NoProgram == [ext |-> FALSE, before |-> None, param |-> FALSE, body |-> <<>>, after |-> None]

\* no query of the catalog is running
NoQuery == [pc |-> "idle", top |-> "", class |-> "", callable |-> "", calls |-> 0,
            consults |-> 0, result |-> None]

InitTable ==
    /\ prog = NoProgram
    /\ st = NewTable
    /\ built = FALSE
    /\ typedb = Classes
    /\ query = NoQuery

\* a query (inlay hints) builds the table of the file's tree
BuildTable ==
    /\ ~built
    /\ st' = build_table(ParseProgram(prog))
    /\ built' = TRUE
    /\ UNCHANGED <<prog, typedb, query>>

\* a query builds the table of a file of InferPrograms
BuildInferTable ==
    /\ ~built
    /\ st' = build_table(ParseInfer(prog))
    /\ built' = TRUE
    /\ UNCHANGED <<prog, typedb, query>>

\* a query builds the table of a file of ScopePrograms
BuildScopeTable ==
    /\ ~built
    /\ st' = build_table(ParseScopes(prog))
    /\ built' = TRUE
    /\ UNCHANGED <<prog, typedb, query>>

\* ------------------------------------------------------ the store, two paths
\* Spec: a writer (did_open, did_close, did_change) and a reader
\* (inlay_hint) over two paths, with short texts and line-0 changes.
StoreTexts == {<<>>, <<"a">>}

StoreEvents ==
    {c \in ChangeEvents :
        /\ c.range.start.line = 0 /\ c.range.end.line = 0
        /\ c.range.start.character <= 1 /\ c.range.end.character <= 1
        /\ c.text \in {<<>>, <<"a">>}}

Init == InitStore /\ InitTable

Next ==
    \/ \E p \in Paths, t \in StoreTexts : file_opened(p, t) /\ UNCHANGED <<batchVars, tableVars>>
    \/ \E p \in Paths : did_close(p) /\ UNCHANGED <<batchVars, tableVars>>
    \/ \E p \in Paths : file_changed_begin(p) /\ UNCHANGED <<batchVars, tableVars>>
    \/ \E c \in StoreEvents : file_changed_edit(c) /\ UNCHANGED <<batchVars, tableVars>>
    \/ file_changed_reparse /\ UNCHANGED <<batchVars, tableVars>>
    \/ \E p \in Paths : make_inlay_hints_begin(p) /\ UNCHANGED <<batchVars, tableVars>>
    \/ make_inlay_hints_finish /\ UNCHANGED <<batchVars, tableVars>>

Spec == Init /\ [][Next]_vars

\* ------------------------------------------------- one file, whole batches
\* SpecBatch: did_open and did_change on one path, every text and every
\* change event, with the batch recorded; the client sends ranges the
\* buffer can take (no panic).
BatchPath == "p1"

PositionLeq(a, b) ==
    a.line < b.line \/ (a.line = b.line /\ a.character <= b.character)

BatchEvents == {c \in ChangeEvents : PositionLeq(c.range.start, c.range.end)}

NextBatch ==
    \/ \E t \in Texts : file_opened(BatchPath, t) /\ RecordReset /\ UNCHANGED tableVars
    \/ file_changed_begin(BatchPath) /\ RecordBegin(BatchPath) /\ UNCHANGED tableVars
    \/ \E c \in BatchEvents :
          /\ wpc = "edit"
          /\ ~EditPanics(files[last.path].content, c)
          /\ file_changed_edit(c) /\ RecordEdit(c) /\ UNCHANGED tableVars
    \/ file_changed_reparse /\ RecordReparse /\ UNCHANGED tableVars

SpecBatch == Init /\ [][NextBatch]_vars

\* --------------------------------------------------- the table of one file
\* SpecTable: build_table on every file of Programs.
InitPrograms ==
    /\ InitStore
    /\ prog \in Programs
    /\ st = NewTable
    /\ built = FALSE
    /\ typedb = Classes
    /\ query = NoQuery

NextTable == BuildTable /\ UNCHANGED <<storeVars, batchVars>>

SpecTable == InitPrograms /\ [][NextTable]_vars

\* ------------------------------------------- the table, over every catalog
\* SpecCatalog: build_table on files that read `b` in the function, under
\* every catalog of PropertyCatalogs.
CatalogPrograms ==
    {p \in Programs :
        /\ p.after = None
        /\ p.before \in {None, Some([name |-> "b", value |-> [kind |-> "integer", text |-> "1", width |-> 1]])}
        /\ Len(p.body) >= 1
        /\ p.body[Len(p.body)].value.kind = "identifier"
        /\ \A i \in 1..(Len(p.body) - 1) : p.body[i].value.kind = "integer"}

InitCatalog ==
    /\ InitStore
    /\ prog \in CatalogPrograms
    /\ st = NewTable
    /\ built = FALSE
    /\ typedb \in PropertyCatalogs
    /\ query = NoQuery

SpecCatalog == InitCatalog /\ [][NextTable]_vars

\* ------------------------------------------------- queries for a callable
\* SpecCallable: one top-level get_callable_type(class, "f") on every catalog
\* of MethodCatalogs, followed activation by activation.
QueryClasses == ChainClasses \cup {GlobalScope, "Missing"}

InitCallable ==
    /\ InitStore
    /\ prog = NoProgram
    /\ st = NewTable
    /\ built = FALSE
    /\ typedb \in MethodCatalogs
    /\ query = NoQuery

\* the caller's call of get_callable_type
CallableQuery(class, callable) ==
    /\ query.pc = "idle"
    /\ query' = [pc |-> "running", top |-> class, class |-> class,
                 callable |-> callable, calls |-> 1, consults |-> 0, result |-> None]
    /\ UNCHANGED <<prog, st, built, typedb>>

\* the running activation of get_callable_type: typedb.rs lines 88-100
CallableActivation ==
    /\ query.pc = "running"
    /\ LET a == get_callable_type_activation(query.class, query.callable)
       IN  IF a.tag = "return"
           THEN query' = [query EXCEPT !.pc = "done", !.result = a.result]
           ELSE /\ query.calls < MaxCalls
                /\ query' = [query EXCEPT !.class = a.class, !.calls = @ + 1,
                                          !.consults = IF a.tag = "retry" THEN @ + 1 ELSE @]
    /\ UNCHANGED <<prog, st, built, typedb>>

NextCallable ==
    \/ \E c \in QueryClasses : CallableQuery(c, "f") /\ UNCHANGED <<storeVars, batchVars>>
    \/ CallableActivation /\ UNCHANGED <<storeVars, batchVars>>

SpecCallable == InitCallable /\ [][NextCallable]_vars

\* ------------------------------------------------- the type of expressions
\* SpecInfer: build_table on every file of InferPrograms, under Classes.
InitInfer ==
    /\ InitStore
    /\ prog \in InferPrograms
    /\ st = NewTable
    /\ built = FALSE
    /\ typedb = Classes
    /\ query = NoQuery

NextInfer == BuildInferTable /\ UNCHANGED <<storeVars, batchVars>>

SpecInfer == InitInfer /\ [][NextInfer]_vars

\* ------------------------------------------------------ the scopes of a file
\* SpecScopes: build_table on every file of ScopePrograms, under Classes.
InitScopes ==
    /\ InitStore
    /\ prog \in ScopePrograms
    /\ st = NewTable
    /\ built = FALSE
    /\ typedb = Classes
    /\ query = NoQuery

NextScopes == BuildScopeTable /\ UNCHANGED <<storeVars, batchVars>>

SpecScopes == InitScopes /\ [][NextScopes]_vars

\* ------------------------------------------------------------ type strings
\* SpecTypes: SymbolType::from_str and SymbolType::to_string on type strings,
\* a string being the sequence of its characters.
TypeChars == {"i", "I", "n", "t", "[", "]"}

\* the strings strum reads and renders for the variants of VariantNames
Spelling ==
    [int |-> <<"i", "n", "t">>, bool |-> <<"b", "o", "o", "l">>,
     float |-> <<"f", "l", "o", "a", "t">>, String |-> <<"S", "t", "r", "i", "n", "g">>,
     Vector3 |-> <<"V", "e", "c", "t", "o", "r", "3">>]

ArrayMarker == <<"[", "]">>

RECURSIVE StringsUpTo(_)
StringsUpTo(n) ==
    IF n = 0 THEN {<<>>}
    ELSE LET shorter == StringsUpTo(n - 1)
         IN  shorter \cup {Append(s, c) : s \in shorter, c \in TypeChars}

TypeStrings ==
    StringsUpTo(MaxTypeLen)
    \cup {Spelling[k] : k \in DOMAIN Spelling}
    \cup {Spelling[k] \o ArrayMarker : k \in DOMAIN Spelling}

\* VariantType::from_str (strum EnumString): Some(variant), or None for
\* Err(VariantNotFound)
VariantType_from_str(s) ==
    IF \E k \in DOMAIN Spelling : Spelling[k] = s
    THEN Some(VariantNames[CHOOSE k \in DOMAIN Spelling : Spelling[k] = s])
    ELSE None

\* VariantType::to_string (strum Display)
VariantType_to_string(v) ==
    Spelling[CHOOSE k \in DOMAIN VariantNames : VariantNames[k] = v]

\* str::strip_suffix("[]")
strip_suffix(s) ==
    IF Len(s) >= 2 /\ SubSeq(s, Len(s) - 1, Len(s)) = ArrayMarker
    THEN Some(SubSeq(s, 1, Len(s) - 2))
    ELSE None

\* SymbolType::from_str, whose every arm is Ok
SymbolType_from_str(s) ==
    LET array_element_type == strip_suffix(s)
    IN  IF array_element_type /= None
        THEN LET v == VariantType_from_str(array_element_type[1])
             IN  IF v /= None THEN [tag |-> "Array", name |-> v[1]]
                 ELSE [tag |-> "OjbectArray", name |-> array_element_type[1]]
        ELSE LET v == VariantType_from_str(s)
             IN  IF v /= None THEN [tag |-> "Variant", name |-> v[1]]
                 ELSE [tag |-> "Object", name |-> s]

\* SymbolType::to_string with "{}" where the source formats "{}[]"
SymbolType_to_string_bare(t) ==
    CASE t.tag \in {"Variant", "Array"} -> VariantType_to_string(t.name)
      [] OTHER -> t.name

\* SymbolType::to_string
SymbolType_to_string(t) ==
    CASE t.tag = "Variant" -> VariantType_to_string(t.name)
      [] t.tag = "Array" -> VariantType_to_string(t.name) \o ArrayMarker
      [] t.tag = "Object" -> t.name
      [] t.tag = "OjbectArray" -> t.name \o ArrayMarker

InitTypes ==
    /\ InitStore
    /\ prog = NoProgram
    /\ st = NewTable
    /\ built = FALSE
    /\ typedb = Classes
    /\ query \in {[pc |-> "idle", s |-> s] : s \in TypeStrings}

\* the type string is classified and the result rendered
Classify ==
    /\ query.pc = "idle"
    /\ LET t == SymbolType_from_str(query.s)
       IN  query' = [pc |-> "done", s |-> query.s, ttype |-> t,
                     text |-> SymbolType_to_string(t)]
    /\ UNCHANGED <<prog, st, built, typedb>>

NextTypes == Classify /\ UNCHANGED <<storeVars, batchVars>>

SpecTypes == InitTypes /\ [][NextTypes]_vars

\* ------------------------------------------------- extract into function
\* SpecExtract: collect_non_declared_variables on a file
\* `[var b = 1] func foo(): <statements> [var n = 1]`, for a start node among
\* the statements of the body and an end node anywhere in the file.
Statement(kind, name, value) == [kind |-> kind, name |-> name, value |-> value]

UsedExpressions ==
    {Identifier("u"),
     BinaryOperator(Identifier("b"), "+", Identifier("a")),
     BinaryOperator(Attribute(Identifier("v"), Identifier("x")), "+",
                    Call("foo", <<Identifier("n")>>))}

Statements ==
    {Statement("variable_statement", "a", e) : e \in UsedExpressions \ {Identifier("u")}}
    \cup {Statement("expression_statement", "", e) :
            e \in UsedExpressions \ {BinaryOperator(Identifier("b"), "+", Identifier("a"))}}

RECURSIVE Bodies(_)
Bodies(n) ==
    IF n = 0 THEN {<<>>}
    ELSE LET shorter == Bodies(n - 1)
         IN  shorter \cup {Append(b, s) : b \in shorter, s \in Statements}

ExtractPrograms ==
    {[before |-> x, after |-> y, body |-> b] :
        x \in BOOLEAN, y \in BOOLEAN, b \in Bodies(MaxStatements) \ {<<>>}}

\* the children of a parent node: of the root ("top") or of the body ("body")
Siblings(p, parent) ==
    IF parent = "body" THEN p.body
    ELSE (IF p.before
          THEN <<Statement("variable_statement", "b", Leaf("integer", "1", 1))>> ELSE <<>>)
         \o <<Statement("function_definition", "foo", Leaf("body", "", 0))>>
         \o (IF p.after
             THEN <<Statement("variable_statement", "n", Leaf("integer", "1", 1))>> ELSE <<>>)

\* a node of the file: the i-th child of its parent
NodeAt(parent, i) == [parent |-> parent, i |-> i]

NodesOf(p, parent) == {NodeAt(parent, i) : i \in 1..Len(Siblings(p, parent))}

\* Node::next_sibling
next_sibling(p, node) ==
    IF node.i < Len(Siblings(p, node.parent)) THEN Some(NodeAt(node.parent, node.i + 1))
    ELSE None

\* collect_used_variables without the pattern (attribute . (identifier) @used)
RECURSIVE collect_used_variables_no_receiver(_)
collect_used_variables_no_receiver(node) ==
    (IF node.kind \in {"binary_operator", "arguments"}
     THEN {node.children[i].text :
             i \in {j \in 1..Len(node.children) : node.children[j].kind = "identifier"}}
     ELSE {})
    \cup UNION {collect_used_variables_no_receiver(node.children[i]) :
                  i \in 1..Len(node.children)}

\* collect_used_variables: the captures of the three patterns under a node
RECURSIVE collect_used_variables(_)
collect_used_variables(node) ==
    (IF node.kind \in {"binary_operator", "arguments"}
     THEN {node.children[i].text :
             i \in {j \in 1..Len(node.children) : node.children[j].kind = "identifier"}}
     ELSE {})
    \cup (IF node.kind = "attribute" /\ node.children[1].kind = "identifier"
          THEN {node.children[1].text} ELSE {})
    \cup UNION {collect_used_variables(node.children[i]) : i \in 1..Len(node.children)}

InitExtract ==
    /\ InitStore
    /\ prog \in ExtractPrograms
    /\ st = NewTable
    /\ built = FALSE
    /\ typedb = Classes
    /\ query \in {[pc |-> "idle", start_node |-> s, end_node |-> e, cur_node |-> None,
                    walk_end |-> e, top_level_variables |-> <<>>,
                    declared_variables |-> <<>>, used_variables |-> {}, result |-> {}] :
                      s \in NodesOf(prog, "body"),
                      e \in NodesOf(prog, "body") \cup NodesOf(prog, "top")}

\* collect_non_declared_variables up to the first walk:
\* collect_top_level_variable_definitions, from the first child of the root
\* to its last child
CollectBegin ==
    /\ query.pc = "idle"
    /\ query' = [query EXCEPT !.pc = "top", !.cur_node = Some(NodeAt("top", 1)),
                              !.walk_end = NodeAt("top", Len(Siblings(prog, "top")))]
    /\ UNCHANGED <<prog, st, built, typedb>>

\* one iteration of the loop of walk_from_start_to_end_node, with the
\* callback of the walk that runs; when the loop exits, what follows it
WalkStep ==
    /\ query.pc \in {"top", "declared", "used"}
    /\ query.cur_node /= None
    /\ LET cur_node == query.cur_node[1]
           node == Siblings(prog, cur_node.parent)[cur_node.i]
           called ==
             CASE query.pc = "used" ->
                    [query EXCEPT !.used_variables = @ \cup collect_used_variables(node.value)]
               [] query.pc = "top" /\ node.kind = "variable_statement" ->
                    [query EXCEPT !.top_level_variables = Append(@, node.name)]
               [] query.pc = "declared" /\ node.kind = "variable_statement" ->
                    [query EXCEPT !.declared_variables = Append(@, node.name)]
               [] OTHER -> query
           cur_node_option == IF cur_node = query.walk_end THEN None
                              ELSE next_sibling(prog, cur_node)
       IN  IF cur_node_option /= None
           THEN query' = [called EXCEPT !.cur_node = cur_node_option]
           ELSE IF query.pc = "top"
           THEN query' = [called EXCEPT !.pc = "declared", !.cur_node = Some(query.start_node),
                                        !.walk_end = query.end_node]
           ELSE IF query.pc = "declared"
           THEN query' = [called EXCEPT !.pc = "used", !.cur_node = Some(query.start_node)]
           ELSE query' = [called EXCEPT
                            !.pc = "done", !.cur_node = None,
                            !.result = {var \in called.used_variables :
                                          /\ \A i \in 1..Len(called.declared_variables) :
                                                called.declared_variables[i] /= var
                                          /\ \A i \in 1..Len(called.top_level_variables) :
                                                called.top_level_variables[i] /= var}]
    /\ UNCHANGED <<prog, st, built, typedb>>

NextExtract ==
    \/ CollectBegin /\ UNCHANGED <<storeVars, batchVars>>
    \/ WalkStep /\ UNCHANGED <<storeVars, batchVars>>

SpecExtract == InitExtract /\ [][NextExtract]_vars /\ WF_vars(NextExtract)

\* -------------------------------------------------------------- inlay hints
\* SpecHints: make_inlay_hints on a file of declarations `var <name> = <e>` or
\* `var <name>: int = <e>`, one per line, for every range of the request.
HintDecls ==
    {[type |-> t, value |-> e] : t \in {None, Some("int")}, e \in {Leaf("float", "1.0", 3), Lambda}}

RECURSIVE HintBodies(_)
HintBodies(n) ==
    IF n = 0 THEN {<<>>}
    ELSE LET shorter == HintBodies(n - 1)
         IN  shorter \cup {Append(b, decl) : b \in shorter, decl \in HintDecls}

HintPrograms == HintBodies(MaxLine + 1) \ {<<>>}

NameEndColumn == 5   \* the column after the name in `var a`

\* the declaration of line `line`, whose first byte is at offset o
HintNode(decl, line, o) ==
    LET value_start == o + (IF decl.type = None THEN 8 ELSE 13)
    IN  [kind |-> "variable_statement", start_byte |-> o,
         end_byte |-> value_start + decl.value.width,
         name |-> IF line = 0 THEN "a" ELSE IF line = 1 THEN "b" ELSE "x",
         name_end |-> [line |-> line, character |-> NameEndColumn],
         type |-> decl.type, value |-> Some(Place(decl.value, value_start))]

RECURSIVE HintNodes(_, _, _)
HintNodes(decls, line, o) ==
    IF decls = <<>> THEN <<>>
    ELSE LET first == HintNode(Head(decls), line, o)
         IN  <<first>> \o HintNodes(Tail(decls), line + 1, first.end_byte + 1)

ParseHints(p) ==
    LET children == HintNodes(p, 0, 0)
    IN  [id |-> RootId, kind |-> "source", start_byte |-> 0,
         end_byte |-> children[Len(children)].end_byte, children |-> children]

\* Symbol.hint_position of the k-th symbol of the root scope: the end of the
\* name of the k-th declaration
hint_position(tree, k) == tree.children[k].name_end

HintPositions ==
    {[line |-> l, character |-> c] :
        l \in 0..MaxLine, c \in (NameEndColumn - 1)..(NameEndColumn + 1)}

\* start <= end, by line and then by character
HintRanges ==
    {[start |-> s, end |-> e] : s \in HintPositions, e \in HintPositions}
    \ {r \in [start : HintPositions, end : HintPositions] :
          \/ r.start.line > r.end.line
          \/ r.start.line = r.end.line /\ r.start.character > r.end.character}

InlayHintKinds == {"TYPE", "PARAMETER"}

\* utils::range_contains
range_contains(range, position) ==
    \/ range.start.line < position.line /\ range.end.line > position.line
    \/ range.start.line = position.line /\ range.start.character <= position.character
    \/ range.end.line = position.line /\ range.end.character >= position.character

\* the body of the loop of make_inlay_hints without the test of static_typed
inlay_hint_static(range, symbol, position, kind) ==
    IF ~range_contains(range, position) THEN {}
    ELSE CASE kind = "PARAMETER" ->
                {[position |-> position, label |-> <<symbol.name, ": ">>, kind |-> kind]}
           [] kind = "TYPE" ->
                IF symbol.ttype = None THEN {}
                ELSE {[position |-> position, label |-> <<": ", to_string(symbol.ttype[1])>>,
                       kind |-> kind]}
           [] OTHER -> {}

\* the body of the loop of make_inlay_hints: the hints one symbol gives
inlay_hint(range, symbol, position, kind) ==
    IF ~range_contains(range, position) THEN {}
    ELSE CASE kind = "PARAMETER" ->
                {[position |-> position, label |-> <<symbol.name, ": ">>, kind |-> kind]}
           [] kind = "TYPE" ->
                IF symbol.ttype = None THEN {}
                ELSE IF symbol.static_typed THEN {}
                ELSE {[position |-> position, label |-> <<": ", to_string(symbol.ttype[1])>>,
                       kind |-> kind]}
           [] OTHER -> {}

InitHints ==
    /\ InitStore
    /\ prog \in HintPrograms
    /\ st = NewTable
    /\ built = FALSE
    /\ typedb = Classes
    /\ query = [pc |-> "idle"]

\* make_inlay_hints on the file, lines 21-66: the table, then the hints of
\* the symbols; kinds[k] is what `symbol.kind` reads for the k-th symbol
MakeInlayHints(range, kinds) ==
    /\ ~built
    /\ LET tree == ParseHints(prog)
           table == build_table(tree)
           symbols == table.map[RootId].vars
       IN  /\ st' = table
           /\ query' = [pc |-> "done", range |-> range, kinds |-> kinds,
                        hints |-> UNION {inlay_hint(range, symbols[k], hint_position(tree, k),
                                                    kinds[k]) : k \in 1..Len(symbols)}]
    /\ built' = TRUE
    /\ UNCHANGED <<prog, typedb>>

NextHints ==
    \E range \in HintRanges, kinds \in [1..Len(prog) -> InlayHintKinds] :
        MakeInlayHints(range, kinds) /\ UNCHANGED <<storeVars, batchVars>>

SpecHints == InitHints /\ [][NextHints]_vars

TypeOK ==
    /\ lock \in {"free", "read", "write"}
    /\ wpc \in {"idle", "edit"}
    /\ \A p \in Paths : Len(files[p].content) <= MaxLen

\* ------------------------------------------------------------------ claims

\* C1: whenever the write guard is not held, every entry's tree is the parse
\* of the entry's buffer: no edit of a batch is in the buffer only, or in the
\* tree only.
C1_TreeMatchesText ==
    lock /= "write" => \A p \in Paths : files[p].open => Coherent(files[p])

\* C2: a path that was open and has been closed, and not opened again since,
\* has no entry in the store, so a query for it finds no file.
C2_ClosedPathHasNoEntry ==
    \A p \in closed : ~files[p].open

\* C3: a reader that holds the read guard sees an entry on which a whole
\* number of batches has been applied: its tree is the parse of its buffer,
\* and the buffer is the one the reader copied.
C3_ReaderSeesWholeBatches ==
    rpc = "locked" =>
        /\ lock = "read" /\ wpc = "idle"
        /\ rfile = files[rpath].content
        /\ Coherent(files[rpath])

\* C4: a batch that returns has applied its change events in the order
\* received, each against the buffer the events before it left, and has
\* reparsed once, after the last of them: the buffer is the text that
\* applying the events in turn to the buffer the batch found gives (expected),
\* and no reparse happens while events are still being applied.
C4_BatchIsSequential ==
    /\ (last.op = "change" /\ last.outcome = "ok") =>
          /\ files[last.path].content = expected
          /\ reparses = 1
    /\ (last.op = "change" /\ last.outcome = "running") =>
          /\ files[last.path].content = expected
          /\ reparses = 0

\* C4 witness: a batch of two changes has returned, the second of which
\* named a position that the first one had moved, and the buffer differs from
\* the one the batch found.
C4_Witness ==
    /\ last.op = "change" /\ last.outcome = "ok"
    /\ consumed = 2
    /\ shifted
    /\ files[last.path].content /= pre

\* C5: the InputEdit handed to the tree is exact: when a change is applied
\* whose start position names the start byte in the buffer, new_end_byte is
\* the end of the inserted text and new_end_position is the (row, column) of
\* that byte in the buffer after the edit.
C5_InputEditExact ==
    [][\A c \in BatchEvents :
          LET content == files[last.path].content
              ie == MakeInputEdit(content, c)
          IN  (/\ c.has_range
               /\ wpc = "edit"
               /\ ~EditPanics(content, c)
               /\ file_changed_edit(c)
               /\ PointOfByte(content, ie.start_byte) = ie.start_position)
              => /\ ie.new_end_byte <= Len(files'[last.path].content)
                 /\ PointOfByte(files'[last.path].content, ie.new_end_byte)
                        = ie.new_end_position]_vars

\* C6: file_opened(path, text) leaves the entry of path holding text and the
\* parse of text, whatever the entry held before, and leaves every other
\* entry as it was.
C6_OpenReplacesEntry ==
    [][\A p \in Paths, t \in Texts :
          file_opened(p, t) =>
              /\ files'[p].open
              /\ files'[p].content = t
              /\ Coherent(files'[p])
              /\ \A q \in Paths \ {p} : files'[q] = files[q]]_vars

\* C6 witness: an open has replaced an entry whose buffer was another text,
\* while another path was open.
C6_Witness ==
    /\ last.op = "open" /\ last.outcome = "replaced"
    /\ files[last.path].content = <<>>
    /\ \E q \in Paths \ {last.path} : files[q].open /\ files[q].content /= <<>>

\* C7: file_changed for a path without an entry changes no entry, takes no
\* lock with it and ends without an error; and no step of a batch changes the
\* entry of a path other than the batch's.
C7_ChangeFrame ==
    [][/\ \A p \in Paths :
            (file_changed_begin(p) /\ ~files[p].open) =>
                /\ files' = files
                /\ lock' = "free" /\ wpc' = "idle"
                /\ last'.outcome = "missing"
       /\ (last'.op = "change" /\ (wpc = "edit" \/ wpc' = "edit")) =>
              \A q \in Paths \ {last'.path} : files'[q] = files[q]]_vars

\* C7 witness: a change for a path without an entry has been dropped while
\* the other path has an entry with text.
C7_Witness ==
    /\ last.op = "change" /\ last.outcome = "missing"
    /\ \E q \in Paths \ {last.path} : files[q].open /\ files[q].content /= <<>>

\* index of the first symbol of scope_vars named n, 0 when there is none
FirstNamed(scope_vars, n) ==
    LET named == {i \in 1..Len(scope_vars) : scope_vars[i].name = n}
    IN  IF named = {} THEN 0 ELSE CHOOSE i \in named : \A j \in named : i <= j

\* the body node of the function of the file
FunctionBody ==
    LET root == ParseProgram(prog)
        funs == {i \in 1..Len(root.children) : root.children[i].kind = "function_definition"}
    IN  root.children[CHOOSE i \in funs : TRUE].body

ParameterCount == IF prog.param THEN 1 ELSE 0

\* C8: a function-local `var x = m`, where m is declared by no parameter and
\* no earlier declaration of the function and by exactly one module-level
\* declaration, of a resolved type, is recorded with the type of m, wherever
\* in the file that module-level declaration stands.
C8_ModuleDeclarationsVisibleEverywhere ==
    built =>
        \A k \in 1..Len(prog.body) :
            LET d == prog.body[k]
                m == d.value.text
                root_vars == st.map[RootId].vars
                named == {i \in 1..Len(root_vars) : root_vars[i].name = m}
            IN  (/\ d.value.kind = "identifier"
                 /\ ~(prog.param /\ m = "b")
                 /\ \A j \in 1..(k - 1) : prog.body[j].name /= m
                 /\ Cardinality(named) = 1
                 /\ \A i \in named : root_vars[i].ttype /= None)
                => \A i \in named :
                      st.map[BodyId].vars[ParameterCount + k].ttype = root_vars[i].ttype

\* C9: for a name declared at module scope and in the function, a lookup from
\* the function's scope at a position of the function's body gives the type of
\* the module-level symbol before the end offset of the function's first
\* declaration of the name, and the type of that declaration after it; and
\* in general a lookup gives the type of a symbol of the innermost scope of the
\* chain that has a symbol of that name declared before the position.
C9_ShadowingByPosition ==
    built =>
        \A n \in Names :
            LET inner_vars == st.map[BodyId].vars
                outer_vars == st.map[RootId].vars
                i == FirstNamed(inner_vars, n)
                o == FirstNamed(outer_vars, n)
                before(scope_vars, p) ==
                    {k \in 1..Len(scope_vars) :
                        scope_vars[k].name = n /\ scope_vars[k].byte < p}
                at(scope_vars, p) ==
                    {k \in 1..Len(scope_vars) :
                        scope_vars[k].name = n /\ scope_vars[k].byte = p}
            IN  \A p \in FunctionBody.start_byte..FunctionBody.end_byte :
                    LET found == get_symbol_type(st, BodyId, n, p)
                    IN  /\ (i /= 0 /\ o /= 0 /\ p < inner_vars[i].byte)
                            => found = outer_vars[o].ttype
                        /\ (i /= 0 /\ o /= 0 /\ p > inner_vars[i].byte)
                            => found = inner_vars[i].ttype
                        /\ (at(inner_vars, p) = {} /\ before(inner_vars, p) /= {})
                            => found \in {inner_vars[k].ttype : k \in before(inner_vars, p)}
                        /\ (at(inner_vars, p) = {} /\ before(inner_vars, p) = {}
                              /\ before(outer_vars, p) /= {})
                            => found \in {outer_vars[k].ttype : k \in before(outer_vars, p)}

\* C9 witness: `var b = true` at module scope, and in the function
\* `var x = b` before `var b = 1`: x got the module-level type, and a lookup
\* after the inner declaration gets the inner one.
C9_Witness ==
    /\ built
    /\ prog.before = Some([name |-> "b", value |-> [kind |-> "true", text |-> "true", width |-> 4]])
    /\ ~prog.param
    /\ Len(prog.body) = 2
    /\ prog.body[1].name = "x" /\ prog.body[1].value.kind = "identifier"
    /\ prog.body[2].name = "b" /\ prog.body[2].value.kind = "integer"
    /\ st.map[BodyId].vars[1].ttype = Some(Variant("Bool"))
    /\ get_symbol_type(st, BodyId, "b", FunctionBody.start_byte) = Some(Variant("Bool"))
    /\ get_symbol_type(st, BodyId, "b", FunctionBody.end_byte + 1) = Some(Variant("Int"))

\* C10: a symbol whose declaration offset equals the lookup position is a
\* candidate: a lookup of a name from a scope, at the offset of the scope's
\* first symbol of that name, gives that symbol's type.
C10_OffsetAtPositionIsCandidate ==
    built =>
        \A s \in DOMAIN st.map :
            \A i \in 1..Len(st.map[s].vars) :
                LET v == st.map[s].vars[i]
                IN  FirstNamed(st.map[s].vars, v.name) = i
                    => get_symbol_type(st, s, v.name, v.byte) = v.ttype

\* the classes from c up its parents, at most n of them
RECURSIVE AncestorChain(_, _)
AncestorChain(c, n) ==
    IF n = 0 \/ c \notin DOMAIN typedb THEN <<>>
    ELSE <<c>> \o (IF typedb[c].parent = None THEN <<>>
                   ELSE AncestorChain(typedb[c].parent[1], n - 1))

\* the type of property name on the nearest class of c's chain that has it
NearestProperty(c, name) ==
    LET chain == AncestorChain(c, Cardinality(DOMAIN typedb))
        owners == {i \in 1..Len(chain) : name \in DOMAIN typedb[chain[i]].properties}
    IN  IF owners = {} THEN None
        ELSE Some(typedb[chain[CHOOSE i \in owners : \A j \in owners : i <= j]].properties[name])

\* declaration i of the function's body reads a name that no parameter, no
\* earlier declaration of the body and no declaration before the function has
ReadsUndeclared(i) ==
    /\ prog.body[i].value.kind = "identifier"
    /\ ~(prog.param /\ prog.body[i].value.text = "b")
    /\ \A j \in 1..(i - 1) : prog.body[j].name /= prog.body[i].value.text
    /\ prog.before /= None => prog.before[1].name /= prog.body[i].value.text

\* C11: in a file with `extends Child`, an identifier that the lexical walk
\* finds in no scope has the type of that property on Child or on the nearest
\* ancestor of Child that has it, and no type when the chain ends without it.
C11_InheritanceFallback ==
    (built /\ prog.ext) =>
        \A i \in 1..Len(prog.body) :
            ReadsUndeclared(i) =>
                st.map[BodyId].vars[ParameterCount + i].ttype
                    = NearestProperty("Child", prog.body[i].value.text)

\* C11 witness: Child has no `b`, its parent Base and Base's parent Root both
\* have one, and the undeclared `b` read in the function got Base's.
C11_Witness ==
    /\ built /\ prog.ext
    /\ "b" \notin DOMAIN typedb["Child"].properties
    /\ typedb["Child"].parent = Some("Base") /\ typedb["Base"].parent = Some("Root")
    /\ "b" \in DOMAIN typedb["Base"].properties
    /\ "b" \in DOMAIN typedb["Root"].properties
    /\ \E i \in 1..Len(prog.body) :
          /\ ReadsUndeclared(i)
          /\ st.map[BodyId].vars[ParameterCount + i].ttype = Some(Object("Base"))

\* the return type of method name on the nearest class of c's chain that has it
NearestMethod(c, name) ==
    LET chain == AncestorChain(c, Cardinality(DOMAIN typedb))
        owners == {i \in 1..Len(chain) : name \in DOMAIN typedb[chain[i]].methods}
    IN  IF owners = {} THEN None
        ELSE Some(typedb[chain[CHOOSE i \in owners : \A j \in owners : i <= j]].methods[name])

\* C12: on an acyclic catalog a top-level get_callable_type(class, name) goes
\* to the global scope at most once, after the chain of class, and when it
\* returns it returns the method of the nearest class of the chain that has
\* it, else the global scope's, else None.
C12_GlobalScopeConsultedOnce ==
    /\ query.consults <= 1
    /\ query.pc = "done" =>
          query.result =
              IF NearestMethod(query.top, query.callable) /= None
              THEN NearestMethod(query.top, query.callable)
              ELSE NearestMethod(GlobalScope, query.callable)

\* the expression of `var r = <e>` in the tree, and the symbols of the body
InferValue == Place(prog.expr, (IF prog.ext THEN ExtendsWidth ELSE 0) + InferHeaderWidth + 8)

BodyVars == st.map[BodyId].vars

\* the type the table has for `r`: the symbol after the three parameters
RecordedType == BodyVars[Len(InferParameters) + 1].ttype

\* C13: a call of a builtin whose catalog return type is the sentinel
\* Object("Variant"), with a first argument of a resolvable type T, is given
\* type T, with or without `extends` in the file.
C13_GenericPassthrough ==
    (/\ built /\ prog.expr.kind = "call"
     /\ get_callable_type(GlobalScope, prog.expr.children[1].text) = Some(Object("Variant"))
     /\ Len(InferValue.children[2].children) > 2
     /\ ~Failed(infer_type(st, BodyId, InferValue.children[2].children[2])))
    => /\ ~st.unwound
       /\ RecordedType = infer_type(st, BodyId, InferValue.children[2].children[2])

\* C14: whatever the expression, inference gives a type or none and does not
\* panic, and build_table goes on to record the declaration after it.
C14_GracefulDegradation ==
    built =>
        /\ ~st.unwound
        /\ Len(BodyVars) = Len(InferParameters) + 2
        /\ BodyVars[Len(BodyVars)].name = "s"
        /\ BodyVars[Len(BodyVars)].ttype = Some(Variant("Int"))

\* the class a parameter of the function is an instance of
ParameterClass(name) ==
    LET i == CHOOSE k \in 1..Len(InferParameters) : InferParameters[k].name = name
    IN  InferParameters[i].type[1]

\* C15: `a.p`, where a is an instance of class C and p is a property of C or
\* of an ancestor of C, has the type the catalog's inheritance-aware lookup
\* gives for (C, p).
C15_InstanceAttributeInherited ==
    (/\ built /\ prog.expr.kind = "attribute"
     /\ prog.expr.children[1] \in {Identifier("a"), Identifier("v")}
     /\ prog.expr.children[3].kind = "identifier"
     /\ NearestProperty(ParameterClass(prog.expr.children[1].text),
                        prog.expr.children[3].text) /= None)
    => RecordedType = NearestProperty(ParameterClass(prog.expr.children[1].text),
                                      prog.expr.children[3].text)

\* the type of an expression inferred on its own: no scope, no base class
StandaloneType(e) == infer_type(NewTable, 0, e)

\* C16: `Name.CONST`, where Name is no visible symbol, has the type of the
\* constant's literal text parsed and inferred as an expression of its own
\* when Name is a class of the catalog with constant CONST, and no type
\* when the class or the constant is absent.
C16_ClassConstant ==
    (/\ built /\ prog.expr.kind = "attribute"
     /\ prog.expr.children[1] \in {Identifier("u"), Identifier("Vector3"), Identifier("Child")}
     /\ prog.expr.children[3].kind = "identifier")
    => LET name == prog.expr.children[1].text
           const == prog.expr.children[3].text
       IN  RecordedType =
               IF name \in DOMAIN typedb /\ const \in DOMAIN typedb[name].constants
               THEN LET parsed == parse_constant(typedb[name].constants[const])
                    IN  IF parsed = None THEN None ELSE StandaloneType(parsed[1])
               ELSE None

\* C16 witness: `var r = Vector3.ZERO` got type Vector3.
C16_Witness ==
    /\ built
    /\ prog.expr = Attribute(Identifier("Vector3"), Identifier("ZERO"))
    /\ RecordedType = Some(Variant("Vector3"))

\* C17: `l op r` has no type when l or r has none; otherwise it has the
\* operator table's result for (type string of l, op, type of r), and no
\* type when the table has no such entry.
C17_BinaryOperator ==
    (/\ built /\ prog.expr.kind = "binary_operator"
     /\ infer_type(st, BodyId, InferValue.children[1]) /= Unwind
     /\ infer_type(st, BodyId, InferValue.children[3]) /= Unwind)
    => LET l == infer_type(st, BodyId, InferValue.children[1])
           r == infer_type(st, BodyId, InferValue.children[3])
           entries == {e \in BinaryOperators :
                         /\ e.left = to_string(l[1])
                         /\ e.op = prog.expr.children[2].kind
                         /\ e.right = r[1]}
       IN  RecordedType =
               IF l = None \/ r = None \/ entries = {} THEN None
               ELSE Some((CHOOSE e \in entries : TRUE).result)

\* C17 witness: `var r = n+1` with n: int got Int.
C17_Witness ==
    /\ built
    /\ prog.expr = BinaryOperator(Identifier("n"), "+", Leaf("integer", "1", 1))
    /\ RecordedType = Some(Variant("Int"))

\* ------------------------------------------------------------ nested bodies
\* the declarations directly inside a body: name, end byte, kind of the value
Declarations(body) ==
    LET ds == SelectSeq(body.children, LAMBDA c : c.kind = "variable_statement")
    IN  [i \in 1..Len(ds) |->
            [name |-> ds[i].name, byte |-> ds[i].end_byte, kind |-> ds[i].value[1].kind]]

\* the bodies a statement holds, by the grammar
StatementBodies(child) ==
    CASE child.kind \in {"function_definition", "for_statement", "while_statement"} ->
            <<child.body>>
      [] child.kind = "if_statement" ->
            <<child.body>> \o [i \in 1..Len(child.alternatives) |-> child.alternatives[i].body]
      [] child.kind = "match_statement" ->
            [i \in 1..Len(child.body[1].children) |-> child.body[1].children[i].body[1]]
      [] OTHER -> <<>>

\* every body nested in a body, with the body that encloses it
RECURSIVE NestedBodies(_)
NestedBodies(body) ==
    UNION {LET bs == StatementBodies(body.children[i])
           IN  UNION {{[id |-> bs[j].id, parent |-> body.id, start_byte |-> bs[j].start_byte,
                        end_byte |-> bs[j].end_byte, decls |-> Declarations(bs[j])]}
                      \cup NestedBodies(bs[j]) : j \in 1..Len(bs)}
           : i \in 1..Len(body.children)}

Recorded(scope_id, d) ==
    /\ scope_id \in DOMAIN st.map
    /\ \E k \in DOMAIN st.map[scope_id].vars :
          st.map[scope_id].vars[k].name = d.name /\ st.map[scope_id].vars[k].byte = d.byte

\* C18: every nested body (function, if/elif/else, for, while, match arm) has
\* a scope keyed by its node identity whose parent is the scope of the
\* enclosing body, and every declaration directly inside it is a symbol of
\* that scope and of no other.
C18_EveryBodyScoped ==
    built =>
      \A e \in NestedBodies(ParseScopes(prog)) :
        /\ e.id \in DOMAIN st.map
        /\ st.map[e.id].parent = e.parent
        /\ \A i \in 1..Len(e.decls) :
              /\ Recorded(e.id, e.decls[i])
              /\ \A other \in DOMAIN st.map \ {e.id} : ~Recorded(other, e.decls[i])

\* the explicitly typed parameters of the function, in order
TypedParameters ==
    SelectSeq(ParseScopes(prog).children[1].parameters, LAMBDA p : p.type /= None)

ScopesFunctionBody == ParseScopes(prog).children[1].body

\* C19: the scope of the function body holds exactly one symbol per explicitly
\* typed parameter and none for an untyped one, static_typed, at the start
\* byte of the body, before the symbols of the declarations, and a lookup at
\* every position inside the body finds each typed parameter.
C19_TypedParameters ==
    built =>
      LET fvars == st.map[BodyId].vars
          n == Len(TypedParameters)
      IN  /\ Len(fvars) = n + Len(Declarations(ScopesFunctionBody))
          /\ \A i \in 1..n :
                /\ fvars[i] = Symbol(TypedParameters[i].name, ScopesFunctionBody.start_byte, TRUE,
                                     Some(from_str(TypedParameters[i].type[1])))
                /\ \A position \in ScopesFunctionBody.start_byte..ScopesFunctionBody.end_byte :
                      get_symbol_type(st, BodyId, TypedParameters[i].name, position)
                        = Some(from_str(TypedParameters[i].type[1]))

LiteralType ==
    [integer |-> Variant("Int"), float |-> Variant("Float"), true |-> Variant("Bool"),
     false |-> Variant("Bool"), string |-> Variant("String")]

\* C20: a declaration without annotation whose initializer is an integer,
\* float, boolean or string literal is recorded in the scope of the body that
\* contains it with type Int, Float, Bool or String, static_typed false.
C20_LiteralTyping ==
    built =>
      \A e \in NestedBodies(ParseScopes(prog)) :
        \A i \in 1..Len(e.decls) :
          /\ e.id \in DOMAIN st.map
          /\ \E k \in DOMAIN st.map[e.id].vars :
                st.map[e.id].vars[k] = Symbol(e.decls[i].name, e.decls[i].byte, FALSE,
                                              Some(LiteralType[e.decls[i].kind]))

\* ------------------------------------------------------------ type strings
\* C21: SymbolType::from_str classifies every string (with a trailing "[]":
\* Array for a recognised primitive element name, ObjectArray otherwise;
\* without: Variant for a recognised primitive name, Object otherwise), and
\* to_string of the result is the string again.
C21_TypeStringRoundTrip ==
    query.pc = "done" =>
      LET s == query.s
          marked == Len(s) >= 2 /\ s[Len(s) - 1] = "[" /\ s[Len(s)] = "]"
          element == IF marked THEN SubSeq(s, 1, Len(s) - 2) ELSE s
          primitive == \E k \in DOMAIN Spelling : Spelling[k] = element
      IN  /\ query.ttype.tag = (IF marked
                                THEN (IF primitive THEN "Array" ELSE "OjbectArray")
                                ELSE (IF primitive THEN "Variant" ELSE "Object"))
          /\ primitive => \E k \in DOMAIN Spelling :
                            Spelling[k] = element /\ query.ttype.name = VariantNames[k]
          /\ ~primitive => query.ttype.name = element
          /\ query.text = s

C21_Witness ==
    /\ query.pc = "done"
    /\ query.s = <<"i", "n", "t", "[", "]">>
    /\ query.ttype.tag = "Array"
    /\ query.text = query.s

\* -------------------------------------------------- extract into function
\* every node under a node, the node included
RECURSIVE Subnodes(_)
Subnodes(node) == {node} \cup UNION {Subnodes(node.children[i]) : i \in 1..Len(node.children)}

\* the names used under a node as an operand of a binary operator, as an
\* argument of a call, or as the receiver of an attribute access
UsedUnder(node) ==
    {name \in DOMAIN NameWidth :
        \E parent \in Subnodes(node) :
          \/ /\ parent.kind \in {"binary_operator", "arguments"}
             /\ \E i \in 1..Len(parent.children) : parent.children[i] = Identifier(name)
          \/ /\ parent.kind = "attribute"
             /\ parent.children[1] = Identifier(name)}

EndIsLaterSibling ==
    query.end_node.parent = "body" /\ query.end_node.i >= query.start_node.i

Selected == {i \in DOMAIN prog.body : query.start_node.i <= i /\ i <= query.end_node.i}

NonDeclared ==
    (UNION {UsedUnder(prog.body[i].value) : i \in Selected})
    \ ({prog.body[i].name : i \in {j \in Selected : prog.body[j].kind = "variable_statement"}}
        \cup (IF prog.before THEN {"b"} ELSE {})
        \cup (IF prog.after THEN {"n"} ELSE {}))

\* C22: collect_non_declared_variables(start, end) returns the identifiers
\* used (binary operand, call argument, attribute receiver) in the sibling
\* statements from start through end, minus the names declared by the
\* variable statements among them and by the top-level variable statements;
\* and its walks end, also when end is not a later sibling of start.
C22_NonDeclaredVariables ==
    /\ [](query.pc = "done" /\ EndIsLaterSibling => query.result = NonDeclared)
    /\ <>(query.pc = "done")

C22_Witness ==
    /\ query.pc = "done"
    /\ EndIsLaterSibling
    /\ query.start_node.i < query.end_node.i
    /\ prog.before
    /\ query.result = {"v", "n"}

\* -------------------------------------------------------------- inlay hints
\* the trailing type hints at the name of the declaration of line k - 1
TypeHintsAt(k) ==
    {h \in query.hints : h.kind = "TYPE" /\ h.position = ParseHints(prog).children[k].name_end}

\* C23: a type hint is produced for a declaration only if it has no type
\* annotation and its type was resolved; a declaration with an annotation is
\* recorded static_typed with the type of the annotation, whatever its
\* initializer, and gives no type hint, and neither does a declaration whose
\* inferred type is unresolved.
C23_TypeHintOnlyIfInferred ==
    query.pc = "done" =>
      \A k \in 1..Len(prog) :
        LET symbol == st.map[RootId].vars[k]
        IN  /\ prog[k].type /= None =>
                  /\ symbol.static_typed
                  /\ symbol.ttype = Some(from_str(prog[k].type[1]))
                  /\ TypeHintsAt(k) = {}
            /\ prog[k].type = None =>
                  /\ ~symbol.static_typed
                  /\ symbol.ttype = None => TypeHintsAt(k) = {}
                  /\ \A h \in TypeHintsAt(k) :
                        symbol.ttype /= None /\ h.label = <<": ", to_string(symbol.ttype[1])>>

C23_Witness ==
    /\ query.pc = "done"
    /\ Len(prog) = 2
    /\ prog[1].type = Some("int") /\ prog[1].value.kind = "float"
    /\ prog[2].type = None /\ prog[2].value.kind = "float"
    /\ query.kinds = <<"TYPE", "TYPE">>
    /\ TypeHintsAt(1) = {}
    /\ TypeHintsAt(2) /= {}

\* p lies inside the range: start <= p <= end by line and then by character
Inside(range, p) ==
    /\ \/ range.start.line < p.line
       \/ range.start.line = p.line /\ range.start.character <= p.character
    /\ \/ p.line < range.end.line
       \/ p.line = range.end.line /\ p.character <= range.end.character

\* C24: range_contains(range, p) is true exactly when p lies inside the
\* range, so a request yields hints only at positions inside its range.
C24_RangeContains ==
    query.pc = "done" =>
      /\ \A p \in HintPositions : range_contains(query.range, p) <=> Inside(query.range, p)
      /\ \A h \in query.hints : Inside(query.range, h.position)

\* ------------------------------------------------------- the tree of scopes
\* the key the parent walk from a scope is at after n steps (0 once it ended)
RECURSIVE ParentWalk(_, _)
ParentWalk(scope, n) ==
    IF n = 0 \/ scope \notin DOMAIN st.map THEN scope
    ELSE ParentWalk(st.map[scope].parent, n - 1)

\* the type of the first symbol of the scope that is visible at the position
\* (declared before it) and has the name
FirstVisible(scope_vars, symbol, position) ==
    LET visible == {k \in DOMAIN scope_vars :
                      scope_vars[k].byte < position /\ scope_vars[k].name = symbol}
    IN  IF visible = {} THEN [found |-> FALSE, ttype |-> None]
        ELSE [found |-> TRUE,
              ttype |-> scope_vars[CHOOSE k \in visible : \A j \in visible : k <= j].ttype]

\* C25: after build_table the scopes form a tree: the root scope's parent key
\* is 0, every other scope's parent is a scope of the table, no scope is its
\* own ancestor (the parent walk from every scope ends at key 0), the
\* offsets of the symbols of a scope are non-decreasing in list order, and
\* the scan of a scope, which stops at the first symbol not yet visible,
\* finds the first visible symbol of the name.
C25_ScopeTree ==
    built =>
      /\ RootId \in DOMAIN st.map /\ st.map[RootId].parent = 0
      /\ \A id \in DOMAIN st.map :
            /\ st.map[id].id = id
            /\ id /= RootId => st.map[id].parent \in DOMAIN st.map
            /\ ParentWalk(id, Cardinality(DOMAIN st.map)) = 0
            /\ \A n \in 1..Cardinality(DOMAIN st.map) : ParentWalk(id, n) /= id
            /\ \A k \in 1..(Len(st.map[id].vars) - 1) :
                  st.map[id].vars[k].byte <= st.map[id].vars[k + 1].byte
            /\ \A symbol \in {"p1", "p2", "i", "f", "t", "s"},
                  position \in {0} \cup UNION {{st.map[id].vars[k].byte,
                                                  st.map[id].vars[k].byte + 1} :
                                                 k \in DOMAIN st.map[id].vars} :
                  ScanVars(st.map[id].vars, symbol, position, 1)
                    = FirstVisible(st.map[id].vars, symbol, position)

C25_Witness ==
    /\ built
    /\ \E id \in DOMAIN st.map :
          /\ st.map[id].parent = BodyId /\ st.map[BodyId].parent = RootId
          /\ st.map[id].vars /= <<>>
    /\ Len(st.map[BodyId].vars) >= 3
    /\ st.map[BodyId].vars[1].byte < st.map[BodyId].vars[3].byte

\* ------------------------------------------------- changes without a range
\* the buffer the batch found with its changes that have a range applied in
\* turn is `expected`: ChangeApplied leaves the text as it is for a change
\* without range.
\* C26: file_changed skips a change event without range: the step changes
\* neither the buffer nor the tree and the batch goes on; a batch with such an
\* event that returns has applied its other events in order and reparsed once.
NoRangeEvents == {c \in ChangeEvents : ~c.has_range}

C26_NoRangeSkipped ==
    /\ [][\A c \in NoRangeEvents :
            (wpc = "edit" /\ file_changed_edit(c))
              => (files' = files /\ wpc' = "edit" /\ lock' = "write" /\ last' = last)]_vars
    /\ []((last.op = "change" /\ last.outcome = "ok" /\ skipped > 0) =>
            (files[last.path].content = expected /\ reparses = 1))

\* C26 witness: a batch of two events has returned whose first event had no
\* range and whose second changed the buffer.
C26_Witness ==
    /\ last.op = "change" /\ last.outcome = "ok"
    /\ skipped = 1 /\ consumed = 2
    /\ files[last.path].content /= pre
====
